---- MODULE Spec2Model ----
(***************************************************************************)
(* A model of libreco's DataInfo (libreco/data/data_info.py) and of the    *)
(* neighbourhood engine CfBase (libreco/bases/cf_base.py).                 *)
(*                                                                         *)
(* A DataInfo object is a record `self`; every method is an operator from  *)
(* the object (and its arguments) to the object after the call.  Python's  *)
(* None is the empty tuple and a present value v is the 1-tuple <<v>>.     *)
(* numpy arrays are sequences (index i of the code is position i+1), a     *)
(* 2-d array is a sequence of rows, a dict is a function.                  *)
(***************************************************************************)
EXTENDS Integers, Sequences, FiniteSets, TLC

VARIABLES di, nops, last_mutation, ret, disk, model, out

(***************************************************************************)
(* Bounds of the model.                                                    *)
(***************************************************************************)
\* rows of an incoming data frame
MaxRows == 2
\* calls made on one DataInfo object
MaxOps == 3
\* common neighbours of a predicted pair
MaxLen == 2
\* the largest k_sim
MaxK == 2
\* scored candidates of a ranking
MaxCand == 2
\* the largest n_rec
MaxRec == 2
\* default predictions and fallbacks counted by print_count
MaxPrint == 1
\* default predictions and fallbacks of a run that watches the warnings
MaxWarn == 8
\* epochs a Word2Vec model is trained for in all
MaxTrain == 4
MaxNum == 3

(***************************************************************************)
(* Python / numpy helpers.                                                 *)
(***************************************************************************)
None == << >>
Some(v) == <<v>>

Range(s) == {s[i] : i \in DOMAIN s}

Min(a, b) == IF a <= b THEN a ELSE b

SeqsUpTo(S, n) == UNION {[1..k -> S] : k \in 1..n}

RECURSIVE SumSeq(_)
SumSeq(s) == IF s = << >> THEN 0 ELSE Head(s) + SumSeq(Tail(s))

\* sorted(set): the ascending sequence of a finite set of integers
RECURSIVE SortedSeq(_)
SortedSeq(S) ==
    IF S = {} THEN << >>
    ELSE LET m == CHOOSE x \in S : \A y \in S : x <= y
         IN <<m>> \o SortedSeq(S \ {m})

\* the values of ar1 that are not in ar2, each once, in the order in which
\* ar1 first has them
RECURSIVE first_seen_diff(_, _)
first_seen_diff(ar1, ar2) ==
    IF ar1 = << >> THEN << >>
    ELSE IF Head(ar1) \in Range(ar2)
    THEN first_seen_diff(Tail(ar1), ar2)
    ELSE <<Head(ar1)>> \o first_seen_diff(Tail(ar1), Append(ar2, Head(ar1)))

\* np.setdiff1d(ar1, ar2): the sorted, unique values of ar1 that are not in ar2
setdiff1d(ar1, ar2) == SortedSeq(Range(ar1) \ Range(ar2))

\* dict(zip(vals, range(size))): zip stops at the shorter argument and a
\* repeated key keeps its last position
dict_zip(vals, size) ==
    LET n == Min(Len(vals), size)
    IN [v \in {vals[i] : i \in 1..n} |->
            (CHOOSE i \in 1..n : vals[i] = v /\ \A j \in 1..n : vals[j] = v => j <= i) - 1]

\* {j: key for key, j in d.items()}
dict_invert(d) ==
    [j \in {d[k] : k \in DOMAIN d} |->
        CHOOSE k \in DOMAIN d : d[k] = j /\ \A k2 \in DOMAIN d : d[k2] = j => k2 <= k]

\* np.zeros([n, w])
np_zeros(n, w) == [i \in 1..n |-> [j \in 1..w |-> 0]]

\* arr.shape[1] of a 2-d array
shape1(m) == IF Len(m) = 0 THEN 0 ELSE Len(m[1])

\* arr[:-1]
but_last(m) == SubSeq(m, 1, Len(m) - 1)

\* arr[idx] with an index array idx (0-based)
take(arr, idx) == [k \in 1..Len(idx) |-> arr[idx[k] + 1]]

\* np.mean(m, axis=0); dense values are fixed-point integers, the mean is
\* taken in the same unit
np_mean0(m) == [j \in 1..shape1(m) |-> SumSeq([i \in 1..Len(m) |-> m[i][j]]) \div Len(m)]

(***************************************************************************)
(* libreco.feature.interaction_consumed: one pass over the pairs, every    *)
(* user's items and every item's users in the order met.                   *)
(***************************************************************************)
RECURSIVE select_where(_, _, _)
select_where(keys, vals, k) ==
    IF keys = << >> THEN << >>
    ELSE (IF Head(keys) = k THEN <<Head(vals)>> ELSE << >>)
         \o select_where(Tail(keys), Tail(vals), k)

interaction_consumed(user_indices, item_indices) ==
    LET n == Min(Len(user_indices), Len(item_indices))
        us == SubSeq(user_indices, 1, n)
        is == SubSeq(item_indices, 1, n)
    IN << [u \in Range(us) |-> select_where(us, is, u)],
          [i \in Range(is) |-> select_where(is, us, i)] >>

(***************************************************************************)
(* Column families.  col_name_mapping[family] is an ordered dict, here a   *)
(* sequence of <<column name, index>> pairs.                               *)
(***************************************************************************)
EmptyFeature == [name |-> << >>, index |-> << >>]

\* `not self.col_name_mapping`: the mapping is None or an empty dict
no_mapping(self) ==
    IF self.col_name_mapping = None THEN TRUE ELSE DOMAIN self.col_name_mapping[1] = {}

\* a read that raises whenever the mapping is missing too
read_family_strict(self, family) ==
    IF no_mapping(self) THEN [kind |-> "raise", value |-> "KeyError"]
    ELSE IF family \notin DOMAIN self.col_name_mapping[1]
    THEN [kind |-> "raise", value |-> "KeyError"]
    ELSE LET d == self.col_name_mapping[1][family]
         IN [kind |-> "return",
             value |-> [name |-> [k \in 1..Len(d) |-> d[k][1]],
                        index |-> [k \in 1..Len(d) |-> d[k][2]]]]

\* the read of one of the six Feature properties: what it returns, or the
\* KeyError of the subscript with a family the mapping does not have
read_family(self, family) ==
    IF no_mapping(self) THEN [kind |-> "return", value |-> EmptyFeature]
    ELSE IF family \notin DOMAIN self.col_name_mapping[1]
    THEN [kind |-> "raise", value |-> "KeyError"]
    ELSE LET d == self.col_name_mapping[1][family]
         IN [kind |-> "return",
             value |-> [name |-> [k \in 1..Len(d) |-> d[k][1]],
                        index |-> [k \in 1..Len(d) |-> d[k][2]]]]

\* the value of a read that does not raise
feature_of(self, family) == read_family(self, family).value

sparse_col(self) == feature_of(self, "sparse_col")
dense_col(self) == feature_of(self, "dense_col")
user_sparse_col(self) == feature_of(self, "user_sparse_col")
user_dense_col(self) == feature_of(self, "user_dense_col")
item_sparse_col(self) == feature_of(self, "item_sparse_col")
item_dense_col(self) == feature_of(self, "item_dense_col")

\* keys() | keys(): the set of the names of both families; [] without a mapping
user_col(self) ==
    IF no_mapping(self) THEN [kind |-> "return", value |-> << >>]
    ELSE IF {"user_sparse_col", "user_dense_col"} \subseteq DOMAIN self.col_name_mapping[1]
    THEN [kind |-> "return",
          value |-> Range(user_sparse_col(self).name) \cup Range(user_dense_col(self).name)]
    ELSE [kind |-> "raise", value |-> "KeyError"]

item_col(self) ==
    IF no_mapping(self) THEN [kind |-> "return", value |-> << >>]
    ELSE IF {"item_sparse_col", "item_dense_col"} \subseteq DOMAIN self.col_name_mapping[1]
    THEN [kind |-> "return",
          value |-> Range(item_sparse_col(self).name) \cup Range(item_dense_col(self).name)]
    ELSE [kind |-> "raise", value |-> "KeyError"]

(***************************************************************************)
(* The lazily cached properties.  X(self) is the value a read returns and  *)
(* after_X(self) the object after the read (the cache filled).             *)
(***************************************************************************)
n_users(self) ==
    IF self._n_users = None THEN Len(self.user_unique_vals) ELSE self._n_users[1]
after_n_users(self) ==
    IF self._n_users = None
    THEN [self EXCEPT !._n_users = Some(Len(self.user_unique_vals))]
    ELSE self

n_items(self) ==
    IF self._n_items = None THEN Len(self.item_unique_vals) ELSE self._n_items[1]
after_n_items(self) ==
    IF self._n_items = None
    THEN [self EXCEPT !._n_items = Some(Len(self.item_unique_vals))]
    ELSE self

user2id(self) ==
    IF self._user2id = None
    THEN dict_zip(self.user_unique_vals, n_users(self))
    ELSE self._user2id[1]
after_user2id(self) ==
    IF self._user2id = None
    THEN [after_n_users(self) EXCEPT !._user2id = Some(user2id(self))]
    ELSE self

item2id(self) ==
    IF self._item2id = None
    THEN dict_zip(self.item_unique_vals, n_items(self))
    ELSE self._item2id[1]
after_item2id(self) ==
    IF self._item2id = None
    THEN [after_n_items(self) EXCEPT !._item2id = Some(item2id(self))]
    ELSE self

id2user(self) ==
    IF self._id2user = None THEN dict_invert(user2id(self)) ELSE self._id2user[1]
after_id2user(self) ==
    IF self._id2user = None
    THEN [after_user2id(self) EXCEPT !._id2user = Some(id2user(self))]
    ELSE self

id2item(self) ==
    IF self._id2item = None THEN dict_invert(item2id(self)) ELSE self._id2item[1]
after_id2item(self) ==
    IF self._id2item = None
    THEN [after_item2id(self) EXCEPT !._id2item = Some(id2item(self))]
    ELSE self

data_size(self) ==
    IF self._data_size = None THEN Len(self.interaction_data) ELSE self._data_size[1]
after_data_size(self) ==
    IF self._data_size = None
    THEN [self EXCEPT !._data_size = Some(Len(self.interaction_data))]
    ELSE self

\* reset_property that forgets the two inverse mappings
reset_property_keeps_inverse(self) ==
    [self EXCEPT !._n_users = None, !._n_items = None,
                 !._user2id = None, !._item2id = None,
                 !._data_size = None]

reset_property(self) ==
    [self EXCEPT !._n_users = None, !._n_items = None,
                 !._user2id = None, !._item2id = None,
                 !._id2user = None, !._id2item = None,
                 !._data_size = None]

(***************************************************************************)
(* Array objects.  A unique matrix is held by the object and, possibly,    *)
(* by all_args as well: self.alias names the matrices whose array object   *)
(* is shared with all_args.  np.vstack / np.append build a new array (the  *)
(* attribute is re-bound), an indexed or augmented assignment writes into  *)
(* the array (both holders see it).                                        *)
(***************************************************************************)
MatrixNames ==
    {"user_sparse_unique", "user_dense_unique", "item_sparse_unique", "item_dense_unique"}

rebind(self, m, val) ==
    [self EXCEPT ![m] = Some(val), !.alias = @ \ {m}]

write_inplace(self, m, val) ==
    [self EXCEPT ![m] = Some(val),
                 !.all_args = IF m \in self.alias THEN [@ EXCEPT ![m] = Some(val)] ELSE @]

(***************************************************************************)
(* store_old_info                                                          *)
(***************************************************************************)
index_of(names, x) ==
    (CHOOSE k \in 1..Len(names) : names[k] = x /\ \A j \in 1..(k - 1) : names[j] # x) - 1

in_dict(opt, col) == opt # None /\ col \in DOMAIN opt[1]

\* the three lists after the loop has handled columns i.. of sparse_col.name
RECURSIVE old_info_loop(_, _, _)
old_info_loop(self, i, acc) ==
    LET names == sparse_col(self).name
    IN IF i > Len(names) THEN acc
       ELSE LET col == names[i]
            IN IF in_dict(self.sparse_unique_vals, col)
               THEN old_info_loop(self, i + 1,
                        [len |-> Append(acc.len, Len(self.sparse_unique_vals[1][col])),
                         oov |-> Append(acc.oov, self.sparse_oov[1][i]),
                         offset |-> Append(acc.offset, self.sparse_offset[1][i])])
               ELSE IF in_dict(self.multi_sparse_unique_vals, col)
               THEN old_info_loop(self, i + 1,
                        [len |-> Append(acc.len, Len(self.multi_sparse_unique_vals[1][col])),
                         oov |-> Append(acc.oov, self.sparse_oov[1][i]),
                         offset |-> Append(acc.offset, self.sparse_offset[1][i])])
               ELSE IF self.multi_sparse_unique_vals # None
                       /\ col \in DOMAIN self.col_name_mapping[1]["multi_sparse"]
               THEN LET main_name == self.col_name_mapping[1]["multi_sparse"][col]
                        pos == index_of(names, main_name)
                    IN old_info_loop(self, i + 1,
                        [len |-> Append(acc.len, -1),
                         oov |-> acc.oov,
                         offset |-> Append(acc.offset, self.sparse_offset[1][pos + 1])])
               ELSE old_info_loop(self, i + 1, acc)

store_old_info(self) ==
    LET s1 == [after_n_users(self) EXCEPT !.old_n_users = Some(n_users(self))]
        s2 == [after_n_items(s1) EXCEPT !.old_n_items = Some(n_items(s1))]
    IN IF s2.sparse_unique_vals # None \/ s2.multi_sparse_unique_vals # None
       THEN LET lists == old_info_loop(s2, 1, [len |-> << >>, oov |-> << >>, offset |-> << >>])
            IN [s2 EXCEPT !.old_sparse_len = Some(lists.len),
                          !.old_sparse_oov = Some(lists.oov),
                          !.old_sparse_offset = Some(lists.offset)]
       ELSE s2

(***************************************************************************)
(* extend_unique_matrix                                                    *)
(***************************************************************************)
\* the new rows put before the last row, which is kept
vstack_new_rows_keep_last(matrix, diff_num) ==
    but_last(matrix) \o np_zeros(diff_num, shape1(matrix)) \o <<matrix[Len(matrix)]>>

\* np.vstack([matrix[:-1], np.zeros([diff_num, matrix.shape[1]])])
vstack_new_rows(matrix, diff_num) ==
    but_last(matrix) \o np_zeros(diff_num, shape1(matrix))

extend_one(self, m, diff_num) ==
    IF self[m] # None THEN rebind(self, m, vstack_new_rows(self[m][1], diff_num)) ELSE self

extend_unique_matrix(self, mode, diff_num) ==
    IF mode = "user"
    THEN extend_one(extend_one(self, "user_sparse_unique", diff_num),
                    "user_dense_unique", diff_num)
    ELSE IF mode = "item"
    THEN extend_one(extend_one(self, "item_sparse_unique", diff_num),
                    "item_dense_unique", diff_num)
    ELSE self

(***************************************************************************)
(* expand_sparse_unique_vals_and_matrix.  A data frame is a function from  *)
(* column names to columns.                                                *)
(***************************************************************************)
\* the inner update_sparse_unique: the dict is updated in place, so the
\* holder of the same dict (all_args) sees the new values too
update_sparse_unique(self, dicts, idxs, data) ==
    LET old == self[dicts][1]
        diff(col) == setdiff1d(data[col], old[col])
        new_vals == [col \in DOMAIN old |->
                        IF Len(diff(col)) > 0 THEN old[col] \o diff(col) ELSE old[col]]
        new_idxs == [col \in DOMAIN self[idxs][1] \cup {c \in DOMAIN old : Len(diff(c)) > 0} |->
                        IF col \in DOMAIN old /\ Len(diff(col)) > 0
                        THEN dict_zip(new_vals[col], Len(new_vals[col]))
                        ELSE self[idxs][1][col]]
    IN [self EXCEPT ![dicts] = Some(new_vals), ![idxs] = Some(new_idxs)]

\* the unique users rebuilt as the sorted union of the old and the new ones
expand_users_sorted_union(self, data) ==
    LET user_diff == setdiff1d(data["user"], self.user_unique_vals)
    IN IF Len(user_diff) > 0
       THEN extend_unique_matrix(
                [self EXCEPT !.user_unique_vals =
                    SortedSeq(Range(self.user_unique_vals) \cup Range(user_diff))],
                "user", Len(user_diff))
       ELSE self

expand_users(self, data) ==
    LET user_diff == setdiff1d(data["user"], self.user_unique_vals)
    IN IF Len(user_diff) > 0
       THEN extend_unique_matrix(
                [self EXCEPT !.user_unique_vals = self.user_unique_vals \o user_diff],
                "user", Len(user_diff))
       ELSE self

\* the item matrices extended whether or not there is a new item
expand_items_unguarded(self, data) ==
    LET item_diff == setdiff1d(data["item"], self.item_unique_vals)
    IN extend_unique_matrix(
           [self EXCEPT !.item_unique_vals = self.item_unique_vals \o item_diff],
           "item", Len(item_diff))

expand_items(self, data) ==
    LET item_diff == setdiff1d(data["item"], self.item_unique_vals)
    IN IF Len(item_diff) > 0
       THEN extend_unique_matrix(
                [self EXCEPT !.item_unique_vals = self.item_unique_vals \o item_diff],
                "item", Len(item_diff))
       ELSE self

\* an expansion that takes the snapshot once it has expanded
expand_then_store_old_info(self, data) ==
    LET s1 == reset_property(self)
        s2 == expand_users(s1, data)
        s3 == expand_items(s2, data)
        s4 == IF s3.sparse_unique_vals # None
              THEN update_sparse_unique(s3, "sparse_unique_vals", "sparse_unique_idxs", data)
              ELSE s3
        s5 == IF s4.multi_sparse_unique_vals # None
              THEN update_sparse_unique(s4, "multi_sparse_unique_vals",
                                        "multi_sparse_unique_idxs", data)
              ELSE s4
    IN reset_property(store_old_info(s5))

expand_sparse_unique_vals_and_matrix(self, data) ==
    LET s1 == reset_property(store_old_info(self))
        s2 == expand_users(s1, data)
        s3 == expand_items(s2, data)
        s4 == IF s3.sparse_unique_vals # None
              THEN update_sparse_unique(s3, "sparse_unique_vals", "sparse_unique_idxs", data)
              ELSE s3
    IN IF s4.multi_sparse_unique_vals # None
       THEN update_sparse_unique(s4, "multi_sparse_unique_vals", "multi_sparse_unique_idxs", data)
       ELSE s4

(***************************************************************************)
(* add_oov                                                                 *)
(***************************************************************************)
\* np.vstack([matrix, oov_row])
vstack_oov(matrix, oov_row) == Append(matrix, oov_row)

add_oov(self) ==
    LET s1 == IF self.user_sparse_unique # None
              THEN LET r == after_n_users(self)
                   IN IF Len(r.user_sparse_unique[1]) = n_users(self)
                      THEN rebind(r, "user_sparse_unique",
                               vstack_oov(r.user_sparse_unique[1],
                                          take(r.sparse_oov[1], user_sparse_col(r).index)))
                      ELSE r
              ELSE self
        s2 == IF s1.item_sparse_unique # None
              THEN LET r == after_n_items(s1)
                   IN IF Len(r.item_sparse_unique[1]) = n_items(s1)
                      THEN rebind(r, "item_sparse_unique",
                               vstack_oov(r.item_sparse_unique[1],
                                          take(r.sparse_oov[1], item_sparse_col(r).index)))
                      ELSE r
              ELSE s1
        s3 == IF s2.user_dense_unique # None
              THEN LET r == after_n_users(s2)
                   IN IF Len(r.user_dense_unique[1]) = n_users(s2)
                      THEN rebind(r, "user_dense_unique",
                               vstack_oov(r.user_dense_unique[1], np_mean0(r.user_dense_unique[1])))
                      ELSE r
              ELSE s2
    IN IF s3.item_dense_unique # None
       THEN LET r == after_n_items(s3)
            IN IF Len(r.item_dense_unique[1]) = n_items(s3)
               THEN rebind(r, "item_dense_unique",
                        vstack_oov(r.item_dense_unique[1], np_mean0(r.item_dense_unique[1])))
               ELSE r
       ELSE s3

(***************************************************************************)
(* modify_sparse_indices, and the recomputation of the offsets that comes  *)
(* before it.  The recomputation is done by the data set builder, outside  *)
(* this class: every sparse column gets a block of its number of known     *)
(* categories and one oov slot behind it, in the order of the columns.     *)
(***************************************************************************)
\* the offsets of blocks of the sizes lens, each with one more slot for oov
offsets_for(lens) ==
    [i \in 1..Len(lens) |-> SumSeq([j \in 1..(i - 1) |-> lens[j] + 1])]

recompute_offsets(self) ==
    LET names == sparse_col(self).name
        lens == [i \in 1..Len(names) |-> Len(self.sparse_unique_vals[1][names[i]])]
        offsets == offsets_for(lens)
    IN [self EXCEPT !.sparse_offset = Some(offsets),
                    !.sparse_oov = Some([i \in 1..Len(names) |-> offsets[i] + lens[i]])]

\* matrix += diff, the row diff added to every row
add_to_rows(matrix, diff) ==
    [i \in 1..Len(matrix) |-> [j \in 1..Len(matrix[i]) |-> matrix[i][j] + diff[j]]]

\* a re-basing that leaves the stored indices as they are
modify_sparse_indices_keeps(self) == [self |-> self, raised |-> FALSE]

\* without a snapshot old_offset is np.array(None), and its subscript raises
modify_sparse_indices(self) ==
    IF self.old_sparse_offset = None
    THEN [self |-> self,
          raised |-> self.user_sparse_unique # None \/ self.item_sparse_unique # None]
    ELSE LET old_offset == self.old_sparse_offset[1]
             offset_diff(idx) ==
                 [k \in 1..Len(idx) |->
                     take(self.sparse_offset[1], idx)[k] - take(old_offset, idx)[k]]
             s1 == IF self.user_sparse_unique # None
                   THEN write_inplace(self, "user_sparse_unique",
                            add_to_rows(self.user_sparse_unique[1],
                                        offset_diff(user_sparse_col(self).index)))
                   ELSE self
         IN [self |-> IF s1.item_sparse_unique # None
                      THEN write_inplace(s1, "item_sparse_unique",
                               add_to_rows(s1.item_sparse_unique[1],
                                           offset_diff(item_sparse_col(s1).index)))
                      ELSE s1,
             raised |-> FALSE]

(***************************************************************************)
(* set_popular_items                                                       *)
(***************************************************************************)
\* count_items.sort_values(ascending=False).index.tolist(): most users
\* first; items with equal counts stay in the group order (ascending item)
RECURSIVE sort_by_count(_, _)
sort_by_count(items, count) ==
    IF items = {} THEN << >>
    ELSE LET top == CHOOSE x \in items :
                       \A y \in items : count[x] > count[y] \/ (count[x] = count[y] /\ x <= y)
         IN <<top>> \o sort_by_count(items \ {top}, count)

set_popular_items(self, num) ==
    LET pairs == {<<self.interaction_data[k].user, self.interaction_data[k].item>> :
                     k \in DOMAIN self.interaction_data}
        items == {p[2] : p \in pairs}
        count_items == [i \in items |-> Cardinality({p \in pairs : p[2] = i})]
        sorted == sort_by_count(items, count_items)
        selected_items == SubSeq(sorted, 1, Min(num, Len(sorted)))
        diff == num - Len(selected_items)
    IN IF Len(selected_items) < num /\ self.popular_items # None
       THEN [self EXCEPT !.popular_items =
                Some(selected_items \o SubSeq(@[1], 1, Min(diff, Len(@[1]))))]
       ELSE [self EXCEPT !.popular_items = Some(selected_items)]

\* the constructor arguments all_args holds an object of its own for; the
\* interaction frame and the dicts of unique values are the very objects the
\* DataInfo holds, so all_args always shows their current content
StoredArgs ==
    MatrixNames \cup {"col_name_mapping", "user_indices", "item_indices",
                      "user_unique_vals", "item_unique_vals",
                      "sparse_offset", "sparse_oov", "multi_sparse_combine_info"}

(***************************************************************************)
(* DataInfo.__init__                                                       *)
(***************************************************************************)
map_unique_vals(sparse_unique_vals) ==
    IF sparse_unique_vals = None THEN None
    ELSE Some([col \in DOMAIN sparse_unique_vals[1] |->
                 dict_zip(sparse_unique_vals[1][col], Len(sparse_unique_vals[1][col]))])

DataInfo__init__(args) ==
    LET consumed == interaction_consumed(args.user_indices[1], args.item_indices[1])
        self0 ==
            [col_name_mapping |-> args.col_name_mapping,
             interaction_data |-> args.interaction_data,
             user_sparse_unique |-> args.user_sparse_unique,
             user_dense_unique |-> args.user_dense_unique,
             item_sparse_unique |-> args.item_sparse_unique,
             item_dense_unique |-> args.item_dense_unique,
             user_consumed |-> consumed[1],
             item_consumed |-> consumed[2],
             user_unique_vals |-> args.user_unique_vals,
             item_unique_vals |-> args.item_unique_vals,
             sparse_unique_vals |-> args.sparse_unique_vals,
             sparse_unique_idxs |-> map_unique_vals(args.sparse_unique_vals),
             sparse_offset |-> args.sparse_offset,
             sparse_oov |-> args.sparse_oov,
             multi_sparse_unique_vals |-> args.multi_sparse_unique_vals,
             multi_sparse_unique_idxs |-> map_unique_vals(args.multi_sparse_unique_vals),
             multi_sparse_combine_info |-> args.multi_sparse_combine_info,
             _n_users |-> None, _n_items |-> None,
             _user2id |-> None, _item2id |-> None,
             _id2user |-> None, _id2item |-> None,
             _data_size |-> None,
             popular_items |-> None,
             old_n_users |-> None, old_n_items |-> None,
             old_sparse_len |-> None, old_sparse_oov |-> None, old_sparse_offset |-> None,
             all_args |-> [k \in StoredArgs |-> args[k]],
             alias |-> {m \in MatrixNames : args[m] # None}]
        self1 == add_oov(self0)
    IN IF self1.popular_items = None THEN set_popular_items(self1, 100) ELSE self1

(***************************************************************************)
(* get_indexed_interaction and update_consumed.  update_consumed returns   *)
(* the index arrays to its caller: the result is [self, ret].              *)
(***************************************************************************)
\* series.map(mapping) followed by fillna(n): an id the mapping does not
\* know becomes n
map_fillna(column, mapping, n) ==
    [k \in 1..Len(column) |->
        IF column[k] \in DOMAIN mapping THEN mapping[column[k]] ELSE n]

get_indexed_interaction(self) ==
    LET s1 == after_item2id(after_user2id(self))
        users == [k \in 1..Len(self.interaction_data) |-> self.interaction_data[k].user]
        items == [k \in 1..Len(self.interaction_data) |-> self.interaction_data[k].item]
        has_null(col, mapping) == \E k \in 1..Len(col) : col[k] \notin DOMAIN mapping
    IN [self |-> s1,
        user |-> map_fillna(users, user2id(self), n_users(s1)),
        item |-> map_fillna(items, item2id(self), n_items(s1))]

\* an update that replaces user_consumed and leaves item_consumed
update_consumed_users_only(self, user_indices, item_indices, merge) ==
    LET old_data == get_indexed_interaction(self)
        s1 == IF merge THEN old_data.self ELSE self
        users == IF merge THEN old_data.user \o user_indices ELSE user_indices
        items == IF merge THEN old_data.item \o item_indices ELSE item_indices
        consumed == interaction_consumed(users, items)
    IN [self |-> [s1 EXCEPT !.user_consumed = consumed[1]],
        ret |-> <<users, items>>]

update_consumed(self, user_indices, item_indices, merge) ==
    LET old_data == get_indexed_interaction(self)
        s1 == IF merge THEN old_data.self ELSE self
        users == IF merge THEN old_data.user \o user_indices ELSE user_indices
        items == IF merge THEN old_data.item \o item_indices ELSE item_indices
        consumed == interaction_consumed(users, items)
    IN [self |-> [s1 EXCEPT !.user_consumed = consumed[1], !.item_consumed = consumed[2]],
        ret |-> <<users, items>>]

(***************************************************************************)
(* assign_sparse_features / assign_dense_features.  check_oov and          *)
(* compute_sparse_feat_indices are libreco.feature functions: check_oov    *)
(* replaces the id column by inner ids and drops the rows of unknown ids,  *)
(* compute_sparse_feat_indices gives offset + position of a known category *)
(* and the column's oov for an unseen one.                                 *)
(***************************************************************************)
RECURSIVE filter_positions(_, _, _)
filter_positions(column, keep, k) ==
    IF k > Len(column) THEN << >>
    ELSE (IF column[k] \in keep THEN <<k>> ELSE << >>) \o filter_positions(column, keep, k + 1)

check_oov(self, data, mode) ==
    LET mapping == IF mode = "user" THEN user2id(self) ELSE item2id(self)
        kept == filter_positions(data[mode], DOMAIN mapping, 1)
    IN [self |-> IF mode = "user" THEN after_user2id(self) ELSE after_item2id(self),
        data |-> [c \in DOMAIN data |->
                    [k \in 1..Len(kept) |->
                        IF c = mode THEN mapping[data[c][kept[k]]] ELSE data[c][kept[k]]]]]

compute_sparse_feat_indices(self, data, field_idx, column) ==
    LET offset == self.sparse_offset[1][field_idx + 1]
        oov_val == self.sparse_oov[1][field_idx + 1]
        map_vals == self.sparse_unique_idxs[1][column]
    IN [k \in 1..Len(data[column]) |->
           IF data[column][k] \in DOMAIN map_vals
           THEN map_vals[data[column][k]] + offset
           ELSE oov_val]

\* an assignment that writes the last value to the column in every row
index_assign_every_row(matrix, row_idx, feat_idx, values) ==
    [i \in 1..Len(matrix) |->
        [j \in 1..Len(matrix[i]) |->
            IF j = feat_idx + 1 /\ Len(row_idx) > 0
            THEN values[Len(values)]
            ELSE matrix[i][j]]]

\* matrix[row_idx, feat_idx] = values: the later of two writes to one row wins
index_assign(matrix, row_idx, feat_idx, values) ==
    [i \in 1..Len(matrix) |->
        [j \in 1..Len(matrix[i]) |->
            IF j = feat_idx + 1 /\ \E k \in 1..Len(row_idx) : row_idx[k] = i - 1
            THEN values[CHOOSE k \in 1..Len(row_idx) :
                            row_idx[k] = i - 1 /\ \A k2 \in 1..Len(row_idx) :
                                                      row_idx[k2] = i - 1 => k2 <= k]
            ELSE matrix[i][j]]]

\* the loop over the feature columns from position k on; an index past the
\* last row raises IndexError, which ends the call with the writes made so far
RECURSIVE assign_loop(_, _, _, _, _, _)
assign_loop(self, m, col_info, data, row_idx, k) ==
    IF k > Len(col_info.name) THEN [self |-> self, raised |-> FALSE]
    ELSE LET col == col_info.name[k]
         IN IF col \notin DOMAIN data
            THEN assign_loop(self, m, col_info, data, row_idx, k + 1)
            ELSE IF \E r \in 1..Len(row_idx) : row_idx[r] >= Len(self[m][1])
            THEN [self |-> self, raised |-> TRUE]
            ELSE LET values == IF m \in {"user_sparse_unique", "item_sparse_unique"}
                               THEN compute_sparse_feat_indices(self, data, col_info.index[k], col)
                               ELSE data[col]
                 IN assign_loop(
                        write_inplace(self, m, index_assign(self[m][1], row_idx, k - 1, values)),
                        m, col_info, data, row_idx, k + 1)

assign_sparse_features(self, data, mode) ==
    LET checked == check_oov(self, data, mode)
        s1 == checked.self
        m == IF mode = "user" THEN "user_sparse_unique" ELSE "item_sparse_unique"
        col_info == IF mode = "user" THEN user_sparse_col(s1) ELSE item_sparse_col(s1)
    IN IF s1[m] # None /\ Len(col_info.name) > 0
       THEN assign_loop(s1, m, col_info, checked.data, checked.data[mode], 1)
       ELSE [self |-> s1, raised |-> FALSE]

assign_dense_features(self, data, mode) ==
    LET checked == check_oov(self, data, mode)
        s1 == checked.self
        m == IF mode = "user" THEN "user_dense_unique" ELSE "item_dense_unique"
        col_info == IF mode = "user" THEN user_dense_col(s1) ELSE item_dense_col(s1)
    IN IF s1[m] # None /\ Len(col_info.name) > 0
       THEN assign_loop(s1, m, col_info, checked.data, checked.data[mode], 1)
       ELSE [self |-> s1, raised |-> FALSE]

assign_user_features(self, user_data) ==
    LET r == assign_sparse_features(self, user_data, "user")
    IN IF r.raised THEN r ELSE assign_dense_features(r.self, user_data, "user")

assign_item_features(self, item_data) ==
    LET r == assign_sparse_features(self, item_data, "item")
    IN IF r.raised THEN r ELSE assign_dense_features(r.self, item_data, "item")

(***************************************************************************)
(* store_args, save and load.  The folder holds, under one model name, the *)
(* name mapping file (json) and the archive (npz); the keys unique_<col>   *)
(* and munique_<col> of the archive are its fields unique and munique.     *)
(***************************************************************************)
\* a store_args that keeps the index arrays of the constructor call
store_args_stale_indices(self, user_indices, item_indices) ==
    [self EXCEPT
        !.all_args = [k \in StoredArgs |->
                        IF k \in {"user_indices", "item_indices"} THEN self.all_args[k]
                        ELSE self[k]],
        !.alias = {m \in MatrixNames : self[m] # None}]

store_args(self, user_indices, item_indices) ==
    [self EXCEPT
        !.all_args = [k \in StoredArgs |->
                        IF k = "user_indices" THEN Some(user_indices)
                        ELSE IF k = "item_indices" THEN Some(item_indices)
                        ELSE self[k]],
        !.alias = {m \in MatrixNames : self[m] # None}]

EmptyFolder == [name_mapping |-> None, npz |-> None]

save(self, folder) ==
    [name_mapping |->
        IF self.col_name_mapping # None
        THEN self.all_args["col_name_mapping"]
        ELSE folder.name_mapping,
     npz |-> Some(
        [interaction_data |-> self.interaction_data,
         unique |-> self.sparse_unique_vals,
         munique |-> self.multi_sparse_unique_vals,
         hparams |-> [k \in StoredArgs \ {"col_name_mapping"} |-> self.all_args[k]]])]

\* the hparams dict load builds from the two files
hparams_of(folder) ==
    LET info == folder.npz[1]
    IN  [col_name_mapping |-> folder.name_mapping,
         interaction_data |-> info.interaction_data,
         user_sparse_unique |-> info.hparams["user_sparse_unique"],
         user_dense_unique |-> info.hparams["user_dense_unique"],
         item_sparse_unique |-> info.hparams["item_sparse_unique"],
         item_dense_unique |-> info.hparams["item_dense_unique"],
         user_indices |-> info.hparams["user_indices"],
         item_indices |-> info.hparams["item_indices"],
         user_unique_vals |-> info.hparams["user_unique_vals"],
         item_unique_vals |-> info.hparams["item_unique_vals"],
         sparse_unique_vals |-> info.unique,
         sparse_offset |-> info.hparams["sparse_offset"],
         sparse_oov |-> info.hparams["sparse_oov"],
         multi_sparse_unique_vals |-> info.munique,
         multi_sparse_combine_info |-> info.hparams["multi_sparse_combine_info"]]

\* a load that takes the snapshot of what it has loaded
load_with_snapshot(folder) == store_old_info(DataInfo__init__(hparams_of(folder)))

load(folder) == DataInfo__init__(hparams_of(folder))

(***************************************************************************)
(* The training data the model starts from, and the incoming frames.       *)
(***************************************************************************)
ColNameMapping ==
    [sparse_col |-> << <<"sex", 0>>, <<"genre", 1>> >>,
     dense_col |-> << <<"age", 0>>, <<"price", 1>> >>,
     user_sparse_col |-> << <<"sex", 0>> >>,
     item_sparse_col |-> << <<"genre", 1>> >>,
     user_dense_col |-> << <<"age", 0>> >>,
     item_dense_col |-> << <<"price", 1>> >>,
     multi_sparse |-> << >>]

TrainInteractions ==
    << [user |-> 12, item |-> 22, label |-> 1],
       [user |-> 12, item |-> 23, label |-> 1],
       [user |-> 13, item |-> 22, label |-> 1] >>

\* a data set with one sparse and one dense feature per user and per item
FeatArgs ==
    [col_name_mapping |-> Some(ColNameMapping),
     interaction_data |-> TrainInteractions,
     user_sparse_unique |-> Some(<< <<0>>, <<1>> >>),
     user_dense_unique |-> Some(<< <<10>>, <<30>> >>),
     item_sparse_unique |-> Some(<< <<3>>, <<4>> >>),
     item_dense_unique |-> Some(<< <<5>>, <<7>> >>),
     user_indices |-> Some(<<0, 0, 1>>),
     item_indices |-> Some(<<0, 1, 0>>),
     user_unique_vals |-> <<12, 13>>,
     item_unique_vals |-> <<22, 23>>,
     sparse_unique_vals |-> Some([c \in {"sex", "genre"} |->
                                    IF c = "sex" THEN <<1, 2>> ELSE <<5, 6>>]),
     sparse_offset |-> Some(<<0, 3>>),
     sparse_oov |-> Some(<<2, 5>>),
     multi_sparse_unique_vals |-> None,
     multi_sparse_combine_info |-> None]

\* the same interactions without any feature
PureArgs ==
    [FeatArgs EXCEPT !.col_name_mapping = None,
                     !.user_sparse_unique = None, !.user_dense_unique = None,
                     !.item_sparse_unique = None, !.item_dense_unique = None,
                     !.sparse_unique_vals = None,
                     !.sparse_offset = None, !.sparse_oov = None]

\* the same data with a multi-sparse field of the items: genre is its first
\* column and holds its unique values, genre2 is its second column, a
\* sparse column of its own that shares the offset and the oov of genre
MultiArgs ==
    [FeatArgs EXCEPT
        !.col_name_mapping =
            Some([ColNameMapping EXCEPT
                    !.sparse_col = << <<"sex", 0>>, <<"genre", 1>>, <<"genre2", 2>> >>,
                    !.item_sparse_col = << <<"genre", 1>>, <<"genre2", 2>> >>,
                    !.multi_sparse = [c \in {"genre2"} |-> "genre"]]),
        !.item_sparse_unique = Some(<< <<3, 4>>, <<4, 3>> >>),
        !.sparse_unique_vals = Some([c \in {"sex"} |-> <<1, 2>>]),
        !.sparse_offset = Some(<<0, 3, 3>>),
        !.sparse_oov = Some(<<2, 5, 5>>),
        !.multi_sparse_unique_vals = Some([c \in {"genre"} |-> <<5, 6>>]),
        !.multi_sparse_combine_info = Some([field_offset |-> <<1>>, field_len |-> <<2>>])]

\* rows of new data: known and new users, items and categories
RowSet ==
    { [user |-> 12, item |-> 22, sex |-> 1, genre |-> 5],
      [user |-> 14, item |-> 23, sex |-> 3, genre |-> 5],
      [user |-> 11, item |-> 24, sex |-> 1, genre |-> 7],
      [user |-> 13, item |-> 21, sex |-> 2, genre |-> 6] }

frame(rows) ==
    [c \in {"user", "item", "sex", "genre"} |-> [k \in 1..Len(rows) |-> rows[k][c]]]

Batches == {frame(rows) : rows \in SeqsUpTo(RowSet, MaxRows)}

(***************************************************************************)
(* CfBase, the neighbourhood collaborative-filtering engine.  A prediction *)
(* is a rational number, kept as <<numerator, denominator>> in lowest      *)
(* terms; a call returns [self, kind, value] with kind "return" or "raise".*)
(***************************************************************************)
RECURSIVE gcd(_, _)
gcd(a, b) == IF b = 0 THEN a ELSE gcd(b, a % b)

abs(x) == IF x < 0 THEN -x ELSE x

Max(a, b) == IF a > b THEN a ELSE b

fraction(num, den) ==
    LET g == gcd(abs(num), den) IN <<num \div g, den \div g>>

\* the warnings of compute_pred and of rank_recommendations are printed
\* while print_count is below these
PredWarnings == 7
RecWarnings == 11

\* default_pred, lower_bound and upper_bound are set by Base.__init__ from
\* the task and the data; here they are given to the constructor.
\* pred_warnings and rec_warnings count the warnings compute_pred and
\* rank_recommendations have printed, default_preds the default predictions
\* compute_pred has returned
CfBase__init__(task, k_sim, default_pred, lower_bound, upper_bound, scores) ==
    [task |-> task, k_sim |-> k_sim, default_pred |-> default_pred,
     lower_bound |-> lower_bound, upper_bound |-> upper_bound,
     scores |-> scores, print_count |-> 0,
     pred_warnings |-> 0, rec_warnings |-> 0, default_preds |-> 0]

\* a k_neighbors that takes the neighbours in the order given
unsorted_by_sim(pairs) == pairs

\* sorted(zip(common_labels, common_sims), key=itemgetter(1), reverse=True):
\* highest similarity first, equal similarities in their original order
RECURSIVE sorted_by_sim(_)
sorted_by_sim(pairs) ==
    IF pairs = << >> THEN << >>
    ELSE LET top == CHOOSE k \in 1..Len(pairs) :
                       /\ \A j \in 1..Len(pairs) : pairs[j][2] <= pairs[k][2]
                       /\ \A j \in 1..(k - 1) : pairs[j][2] < pairs[k][2]
         IN <<pairs[top]>> \o
            sorted_by_sim([j \in 1..(Len(pairs) - 1) |->
                              IF j < top THEN pairs[j] ELSE pairs[j + 1]])

RECURSIVE takewhile_positive(_)
takewhile_positive(pairs) ==
    IF pairs = << >> \/ ~(Head(pairs)[2] > 0) THEN << >>
    ELSE <<Head(pairs)>> \o takewhile_positive(Tail(pairs))

islice(seq, stop) == SubSeq(seq, 1, Min(stop, Len(seq)))

\* the <<label, sim>> pairs compute_pred unpacks into k_neighbor_labels and
\* k_neighbor_sims
k_neighbors(self, common_sims, common_labels) ==
    LET n == Min(Len(common_labels), Len(common_sims))
        zipped == [k \in 1..n |-> <<common_labels[k], common_sims[k]>>]
    IN islice(takewhile_positive(sorted_by_sim(zipped)), self.k_sim)

np_clip(x, lower, upper) ==
    IF x[1] < lower * x[2] THEN <<lower, 1>>
    ELSE IF x[1] > upper * x[2] THEN <<upper, 1>>
    ELSE x

\* a compute_pred that falls back to the default only without any neighbour
is_default_case_size_only(common_size, common_sims) == common_size = 0

is_default_case(common_size, common_sims) ==
    common_size = 0 \/ \A k \in 1..Len(common_sims) : common_sims[k] <= 0

compute_pred(self, user, item, common_size, common_sims, common_labels) ==
    IF is_default_case(common_size, common_sims)
    THEN [self |-> [self EXCEPT !.print_count = @ + 1,
                                !.default_preds = @ + 1,
                                !.pred_warnings = IF self.print_count + 1 < PredWarnings
                                                  THEN @ + 1 ELSE @],
          kind |-> "return", value |-> self.default_pred]
    ELSE LET selected == k_neighbors(self, common_sims, common_labels)
             sims == [k \in 1..Len(selected) |-> selected[k][2]]
             weighted == [k \in 1..Len(selected) |-> selected[k][1] * selected[k][2]]
         IN IF selected = << >>
            THEN \* zip(*[]) gives nothing to unpack: ValueError
                 [self |-> self, kind |-> "raise", value |-> None]
            ELSE IF self.task = "rating"
            THEN [self |-> self, kind |-> "return",
                  value |-> np_clip(fraction(SumSeq(weighted), SumSeq(sims)),
                                    self.lower_bound, self.upper_bound)]
            ELSE [self |-> self, kind |-> "return",
                  value |-> fraction(SumSeq(sims), Len(sims))]

(***************************************************************************)
(* Recommendation.  popular_recommendations, filter_items, construct_rec,  *)
(* check_unknown_user, convert_id and check_unknown are functions of       *)
(* libreco.recommendation and libreco.utils.validate; recommend_one is     *)
(* abstract in CfBase and stands here for the scoring of a fitted model:   *)
(* it scores every item with self.scores and ranks.                        *)
(***************************************************************************)
popular_recommendations(data_info, inner_id, n_rec) ==
    LET top_populars == islice(data_info.popular_items[1], n_rec)
    IN IF inner_id
       THEN [k \in 1..Len(top_populars) |-> item2id(data_info)[top_populars[k]]]
       ELSE top_populars

\* the positions (from 0) of ids whose item is not consumed, in order
RECURSIVE unconsumed_positions(_, _, _)
unconsumed_positions(ids, consumed, k) ==
    IF k > Len(ids) THEN << >>
    ELSE (IF ids[k] \in Range(consumed) THEN << >> ELSE <<k - 1>>)
         \o unconsumed_positions(ids, consumed, k + 1)

filter_items(ids, preds, consumed) ==
    LET mask == unconsumed_positions(ids, consumed, 1)
    IN <<take(ids, mask), take(preds, mask)>>

\* np.argsort(preds): positions (from 0) by ascending prediction, equal
\* predictions in their original order
RECURSIVE argsort_from(_, _)
argsort_from(preds, left) ==
    IF left = {} THEN << >>
    ELSE LET low == CHOOSE k \in left :
                       \A j \in left : preds[k] < preds[j] \/ (preds[k] = preds[j] /\ k <= j)
         IN <<low - 1>> \o argsort_from(preds, left \ {low})

argsort(preds) == argsort_from(preds, DOMAIN preds)

\* an order that is left as argsort gave it
not_reversed(seq) == seq

reversed(seq) == [k \in 1..Len(seq) |-> seq[Len(seq) + 1 - k]]

\* random.sample(list(ids), k): the draw is the order rng gives to the items
random_sample(ids, k, rng) ==
    islice(SelectSeq(rng, LAMBDA i : i \in Range(ids)), k)

rank_recommendations(self, data_info, user, ids, preds, n_rec, consumed, filter_consumed, random_rec, rng) ==
    LET filtered == IF filter_consumed THEN filter_items(ids, preds, consumed)
                    ELSE <<ids, preds>>
        ids1 == filtered[1]
        preds1 == filtered[2]
    IN IF Len(ids1) = 0
       THEN [self |-> [self EXCEPT !.print_count = @ + 1,
                                   !.rec_warnings = IF self.print_count + 1 < RecWarnings
                                                     THEN @ + 1 ELSE @],
             value |-> popular_recommendations(data_info, TRUE, n_rec)]
       ELSE IF random_rec /\ Len(ids1) > n_rec
       THEN [self |-> self, value |-> random_sample(ids1, n_rec, rng)]
       ELSE [self |-> self, value |-> islice(take(ids1, reversed(argsort(preds1))), n_rec)]

recommend_one(self, data_info, user_id, n_rec, filter_consumed, random_rec, rng) ==
    LET ids == [k \in 1..Len(self.scores[user_id + 1]) |-> k - 1]
        consumed == IF user_id \in DOMAIN data_info.user_consumed
                    THEN data_info.user_consumed[user_id] ELSE << >>
    IN rank_recommendations(self, data_info, user_id, ids, self.scores[user_id + 1],
                            n_rec, consumed, filter_consumed, random_rec, rng)

\* <<inner ids of the known users, the unknown users as supplied>>
check_unknown_user(data_info, user, inner_id) ==
    LET known(u) == IF inner_id THEN u \in DOMAIN id2user(data_info)
                    ELSE u \in DOMAIN user2id(data_info)
    IN << [k \in 1..Len(SelectSeq(user, known)) |->
              IF inner_id THEN SelectSeq(user, known)[k]
              ELSE user2id(data_info)[SelectSeq(user, known)[k]]],
          SelectSeq(user, LAMBDA u : ~known(u)) >>

construct_rec(data_info, user_ids, computed_recs, inner_id) ==
    [u \in {IF inner_id THEN user_ids[k] ELSE id2user(data_info)[user_ids[k]] :
               k \in 1..Len(user_ids)} |->
        LET last == CHOOSE k \in 1..Len(user_ids) :
                       /\ u = IF inner_id THEN user_ids[k] ELSE id2user(data_info)[user_ids[k]]
                       /\ \A j \in (k + 1)..Len(user_ids) : user_ids[j] # user_ids[k]
        IN IF inner_id THEN computed_recs[last]
           ELSE [r \in 1..Len(computed_recs[last]) |->
                    id2item(data_info)[computed_recs[last][r]]]]

\* dict.update: the entries of updates replace and extend those of recs
dict_update(recs, updates) ==
    [u \in DOMAIN recs \cup DOMAIN updates |->
        IF u \in DOMAIN updates THEN updates[u] ELSE recs[u]]

\* [self.recommend_one(u, ...) for u in user_ids], from position k on
RECURSIVE computed_recs_from(_, _, _, _, _, _, _, _)
computed_recs_from(self, data_info, user_ids, k, n_rec, filter_consumed, random_rec, rng) ==
    IF k > Len(user_ids) THEN [self |-> self, value |-> << >>]
    ELSE LET one == recommend_one(self, data_info, user_ids[k], n_rec,
                                  filter_consumed, random_rec, rng)
             rest == computed_recs_from(one.self, data_info, user_ids, k + 1, n_rec,
                                        filter_consumed, random_rec, rng)
         IN [self |-> rest.self, value |-> <<one.value>> \o rest.value]

\* a recommend_user that checks the strategy before it looks at the users
cold_start_rejected_always(unknown_users, cold_start) == cold_start # "popular"

cold_start_rejected(unknown_users, cold_start) ==
    unknown_users # << >> /\ cold_start # "popular"

\* a cold start that serves the popular items in an order of the user's own
cold_recs_by_user(data_info, unknown_users, inner_id, n_rec) ==
    [u \in Range(unknown_users) |->
        IF u < -1 THEN popular_recommendations(data_info, inner_id, n_rec)
        ELSE islice(reversed(popular_recommendations(data_info, inner_id,
                                 Len(data_info.popular_items[1]))), n_rec)]

\* result_recs after the loop over the unknown users
cold_recs(data_info, unknown_users, inner_id, n_rec) ==
    [u \in Range(unknown_users) |-> popular_recommendations(data_info, inner_id, n_rec)]

recommend_user(self, data_info, user, n_rec, cold_start, inner_id, filter_consumed, random_rec, rng) ==
    LET checked == check_unknown_user(data_info, user, inner_id)
        user_ids == checked[1]
        unknown_users == checked[2]
        result_recs == cold_recs(data_info, unknown_users, inner_id, n_rec)
        computed == computed_recs_from(self, data_info, user_ids, 1, n_rec,
                                       filter_consumed, random_rec, rng)
    IN IF cold_start_rejected(unknown_users, cold_start)
       THEN [self |-> self, kind |-> "raise", value |-> None]
       ELSE [self |-> computed.self, kind |-> "return",
             value |-> Some(dict_update(result_recs,
                           construct_rec(data_info, user_ids, computed.value, inner_id)))]

\* <<user_arr, item_arr>>: inner ids, with n_users / n_items for an id the
\* index does not hold
convert_id(data_info, user, item, inner_id) ==
    IF inner_id THEN <<user, item>>
    ELSE << map_fillna(user, user2id(data_info), n_users(data_info)),
            map_fillna(item, item2id(data_info), n_items(data_info)) >>

\* the number of positions that hold an unknown user or an unknown item
check_unknown(data_info, user_arr, item_arr) ==
    Cardinality({k \in 1..Max(Len(user_arr), Len(item_arr)) :
                    \/ k <= Len(user_arr) /\ user_arr[k] \notin DOMAIN id2user(data_info)
                    \/ k <= Len(item_arr) /\ item_arr[k] \notin DOMAIN id2item(data_info)})

pre_predict_check(self, data_info, user, item, inner_id, cold_start) ==
    LET arrs == convert_id(data_info, user, item, inner_id)
        unknown_num == check_unknown(data_info, arrs[1], arrs[2])
    IN IF unknown_num > 0 /\ cold_start # "popular"
       THEN [self |-> self, kind |-> "raise", value |-> None]
       ELSE [self |-> self, kind |-> "return", value |-> Some(arrs)]

\* training data for the engine: user 12 has consumed every item
RecArgs ==
    [PureArgs EXCEPT
        !.interaction_data = << [user |-> 12, item |-> 22, label |-> 1],
                                [user |-> 12, item |-> 23, label |-> 5],
                                [user |-> 12, item |-> 24, label |-> 1],
                                [user |-> 13, item |-> 22, label |-> 5] >>,
        !.item_unique_vals = <<22, 23, 24>>,
        !.user_indices = Some(<<0, 0, 0, 1>>),
        !.item_indices = Some(<<0, 1, 2, 0>>)]

\* the score a fitted model gives each item (column) for each user (row)
Scores == << <<2, 1, 2>>, <<1, 3, 2>> >>

NoCall == [call |-> "none"]

\* similarities and labels of common neighbours
Sims == {-1, 0, 1, 2}
Labels == {1, 5}
Neighbors == {<< >>} \cup SeqsUpTo(Labels \X Sims, MaxLen)

\* scored candidates: some items in ascending order, each with a score
Candidates ==
    UNION { {<<SortedSeq(items), preds>> : preds \in [1..Cardinality(items) -> {1, 2}]} :
            items \in {c \in SUBSET {0, 1, 2} : Cardinality(c) <= MaxCand} }

\* the orders a random draw can give the items
Draws == {rng \in [1..3 -> {0, 1, 2}] : \A i, j \in 1..3 : rng[i] = rng[j] => i = j}
NoDraw == <<0, 1, 2>>

\* users a caller asks for: user 12 is known as an external id, 0 as an
\* inner id, -1 and -99999 are not known
UserLists ==
    {<<u>> : u \in {12, 0, -1, -99999}}
        \cup {<<-1, -99999>>, <<-99999, 12>>, <<12, 13>>}

Pairs == {<<<<12>>, <<22>>>>, <<<<0>>, <<1>>>>, <<<<12>>, <<-5>>>>, <<<<-1>>, <<22>>>>,
          <<<<12, 13>>, <<22, 24>>>>, <<<<12, -1>>, <<22, 23>>>>}

ColdStarts == {"popular", "sss"}

\* feature frames: a new user with both features, known users with the
\* sparse feature only (one of them with an unseen category)
UserFrames ==
    { [c \in {"user", "sex", "age"} |->
          IF c = "user" THEN <<14>> ELSE IF c = "sex" THEN <<3>> ELSE <<50>>],
      [c \in {"user", "sex"} |-> IF c = "user" THEN <<13, 11>> ELSE <<1, 9>>] }

ItemFrames ==
    { [c \in {"item", "genre", "price"} |->
          IF c = "item" THEN <<21>> ELSE IF c = "genre" THEN <<7>> ELSE <<9>>],
      [c \in {"item", "price"} |-> IF c = "item" THEN <<23, 24>> ELSE <<8, 4>>] }

(***************************************************************************)
(* The calls a program makes on a DataInfo object.  di is the object,      *)
(* last_mutation the last call that changed more than its caches, ret the  *)
(* index arrays the program holds (those the consumption was last built    *)
(* from), disk the folder the object is saved to.                          *)
(***************************************************************************)
vars == <<di, nops, last_mutation, ret, disk, model, out>>

Init ==
    /\ \E args \in {FeatArgs, PureArgs} :
          /\ di = DataInfo__init__(args)
          /\ ret = <<args.user_indices[1], args.item_indices[1]>>
    /\ nops = 0
    /\ last_mutation = "init"
    /\ disk = EmptyFolder
    /\ model = CfBase__init__("ranking", MaxK, <<0, 1>>, None, None, Scores)
    /\ out = NoCall

Expand(data) ==
    /\ nops < MaxOps
    /\ di' = expand_sparse_unique_vals_and_matrix(di, data)
    /\ nops' = nops + 1
    /\ last_mutation' = "expand"
    /\ UNCHANGED <<ret, disk, model, out>>

Properties == {"n_users", "n_items", "user2id", "item2id", "id2user", "id2item"}

after_read(self, p) ==
    CASE p = "n_users" -> after_n_users(self)
      [] p = "n_items" -> after_n_items(self)
      [] p = "user2id" -> after_user2id(self)
      [] p = "item2id" -> after_item2id(self)
      [] p = "id2user" -> after_id2user(self)
      [] p = "id2item" -> after_id2item(self)

ReadProperty(p) ==
    /\ di' = after_read(di, p)
    /\ UNCHANGED <<nops, last_mutation, ret, disk, model, out>>

AddOov ==
    /\ nops < MaxOps
    /\ di' = add_oov(di)
    /\ nops' = nops + 1
    /\ last_mutation' = "add_oov"
    /\ UNCHANGED <<ret, disk, model, out>>

AssignUserFeatures(user_data) ==
    /\ nops < MaxOps
    /\ di' = assign_user_features(di, user_data).self
    /\ nops' = nops + 1
    /\ last_mutation' = "assign_features"
    /\ UNCHANGED <<ret, disk, model, out>>

AssignItemFeatures(item_data) ==
    /\ nops < MaxOps
    /\ di' = assign_item_features(di, item_data).self
    /\ nops' = nops + 1
    /\ last_mutation' = "assign_features"
    /\ UNCHANGED <<ret, disk, model, out>>

\* the caller passes the inner ids of the rows of a frame
UpdateConsumed(data, merge) ==
    /\ nops < MaxOps
    /\ LET r == update_consumed(di,
                    map_fillna(data["user"], user2id(di), n_users(di)),
                    map_fillna(data["item"], item2id(di), n_items(di)),
                    merge)
       IN di' = r.self /\ ret' = r.ret
    /\ nops' = nops + 1
    /\ last_mutation' = "update_consumed"
    /\ UNCHANGED <<disk, model, out>>

\* the caller passes the index arrays it holds
StoreArgs ==
    /\ nops < MaxOps
    /\ di' = store_args(di, ret[1], ret[2])
    /\ nops' = nops + 1
    /\ last_mutation' = "store_args"
    /\ UNCHANGED <<ret, disk, model, out>>

Save ==
    /\ nops < MaxOps
    /\ disk' = save(di, disk)
    /\ nops' = nops + 1
    /\ UNCHANGED <<di, last_mutation, ret, model, out>>

\* the program goes on with the loaded object
Load ==
    /\ nops < MaxOps
    /\ disk.npz # None
    /\ di' = load(disk)
    /\ ret' = <<disk.npz[1].hparams["user_indices"][1], disk.npz[1].hparams["item_indices"][1]>>
    /\ nops' = nops + 1
    /\ last_mutation' = "init"
    /\ UNCHANGED <<disk, model, out>>

\* expansions, interleaved with reads of the cached properties
NextData ==
    \/ \E data \in Batches : Expand(data)
    \/ \E p \in Properties : ReadProperty(p)
    \/ AddOov

SpecData == Init /\ [][NextData]_vars

\* the same operations on the data with a multi-sparse field
InitMulti ==
    /\ di = DataInfo__init__(MultiArgs)
    /\ ret = <<MultiArgs.user_indices[1], MultiArgs.item_indices[1]>>
    /\ nops = 0
    /\ last_mutation = "init"
    /\ disk = EmptyFolder
    /\ model = CfBase__init__("ranking", MaxK, <<0, 1>>, None, None, Scores)
    /\ out = NoCall

\* the rows of new data with the second column of the multi-sparse field;
\* the value 8 comes in the second column only
MultiBatches ==
    {[c \in {"user", "item", "sex", "genre", "genre2"} |->
         [k \in 1..Len(rows) |-> rows[k][c]]] :
        rows \in SeqsUpTo({ [user |-> 12, item |-> 22, sex |-> 1, genre |-> 5, genre2 |-> 6],
                            [user |-> 14, item |-> 23, sex |-> 3, genre |-> 5, genre2 |-> 8],
                            [user |-> 11, item |-> 24, sex |-> 1, genre |-> 7, genre2 |-> 5],
                            [user |-> 13, item |-> 21, sex |-> 2, genre |-> 6, genre2 |-> 5] },
                          MaxRows)}

SpecMulti ==
    InitMulti
    /\ [][\/ \E data \in MultiBatches : Expand(data)
          \/ \E p \in Properties : ReadProperty(p)
          \/ AddOov]_vars

\* the column-name mappings a DataInfo may be built with: none, an empty
\* one, and the two mappings of the data above, whole or without one family
Mappings ==
    {None, Some(<< >>)}
    \cup {Some([f \in DOMAIN m \ lacking |-> m[f]]) :
             m \in {ColNameMapping, MultiArgs.col_name_mapping[1]},
             lacking \in {{}} \cup {{f} : f \in DOMAIN ColNameMapping \ {"multi_sparse"}}}

\* a DataInfo without unique matrices, so that the constructor reads no
\* column family
InitSchema ==
    /\ \E mapping \in Mappings :
          di = DataInfo__init__([PureArgs EXCEPT !.col_name_mapping = mapping])
    /\ ret = <<PureArgs.user_indices[1], PureArgs.item_indices[1]>>
    /\ nops = 0
    /\ last_mutation = "init"
    /\ disk = EmptyFolder
    /\ model = CfBase__init__("ranking", MaxK, <<0, 1>>, None, None, Scores)
    /\ out = NoCall

\* the read of a column-family property
ReadColumnFamily(p) ==
    /\ \E r \in {IF p = "user_col" THEN user_col(di)
                 ELSE IF p = "item_col" THEN item_col(di)
                 ELSE read_family(di, p)} :
          out' = [call |-> p, kind |-> r.kind, value |-> r.value]
    /\ UNCHANGED <<di, nops, last_mutation, ret, disk, model>>

SpecSchema ==
    InitSchema
    /\ [][\E p \in {"sparse_col", "dense_col", "user_sparse_col", "user_dense_col",
                    "item_sparse_col", "item_dense_col", "user_col", "item_col"} :
             ReadColumnFamily(p)]_vars

SetPopularItems(num) ==
    /\ nops < MaxOps
    /\ di' = set_popular_items(di, num)
    /\ nops' = nops + 1
    /\ last_mutation' = "set_popular_items"
    /\ UNCHANGED <<ret, disk, model, out>>

\* the popular items recomputed between expansions
SpecPopular ==
    Init
    /\ [][\/ \E data \in Batches : Expand(data)
          \/ AddOov
          \/ \E num \in 0..MaxNum : SetPopularItems(num)]_vars

\* batch after batch merged into the consumption
SpecMerge == Init /\ [][\E data \in Batches : UpdateConsumed(data, TRUE)]_vars

\* frames for the re-basing: a known user with a new value of sex, a new
\* user and a new item with a new genre, and a row without anything new
RebaseBatches ==
    {frame(rows) :
        rows \in SeqsUpTo({ [user |-> 12, item |-> 22, sex |-> 3, genre |-> 5],
                            [user |-> 14, item |-> 24, sex |-> 1, genre |-> 7],
                            [user |-> 13, item |-> 23, sex |-> 2, genre |-> 6] }, MaxRows)}

\* the builder recomputes the offsets of a data set with sparse features
RecomputeOffsets ==
    /\ nops < MaxOps
    /\ di.sparse_unique_vals # None
    /\ di' = recompute_offsets(di)
    /\ nops' = nops + 1
    /\ last_mutation' = "recompute_offsets"
    /\ UNCHANGED <<ret, disk, model, out>>

ModifySparseIndices ==
    /\ nops < MaxOps
    /\ di' = modify_sparse_indices(di).self
    /\ nops' = nops + 1
    /\ last_mutation' = "modify_sparse_indices"
    /\ UNCHANGED <<ret, disk, model, out>>

\* expansion, recomputation of the offsets and re-basing in any order
SpecRebase ==
    Init
    /\ [][\/ \E data \in RebaseBatches : Expand(data)
          \/ AddOov
          \/ RecomputeOffsets
          \/ ModifySparseIndices]_vars

\* the incremental update of a DataInfo and its persistence
NextPersist ==
    \/ \E data \in Batches : Expand(data)
    \/ AddOov
    \/ \E user_data \in UserFrames : AssignUserFeatures(user_data)
    \/ \E item_data \in ItemFrames : AssignItemFeatures(item_data)
    \/ \E data \in Batches, merge \in BOOLEAN : UpdateConsumed(data, merge)
    \/ StoreArgs
    \/ Save
    \/ Load

SpecPersist == Init /\ [][NextPersist]_vars

(***************************************************************************)
(* The calls a program makes on a fitted engine.  model is the engine, out *)
(* the last call with what it gave back; the DataInfo is not changed.      *)
(***************************************************************************)
data_vars == <<di, nops, last_mutation, ret, disk>>

InitCf ==
    /\ di = DataInfo__init__(RecArgs)
    /\ ret = <<RecArgs.user_indices[1], RecArgs.item_indices[1]>>
    /\ nops = 0
    /\ last_mutation = "init"
    /\ disk = EmptyFolder
    /\ out = NoCall

InitPred ==
    /\ InitCf
    /\ \E k_sim \in 0..MaxK :
          \/ model = CfBase__init__("rating", k_sim, <<3, 1>>, 1, 5, Scores)
          \/ model = CfBase__init__("rating", k_sim, <<3, 1>>, 4, 5, Scores)
          \/ model = CfBase__init__("ranking", k_sim, <<0, 1>>, None, None, Scores)

InitRec ==
    /\ InitCf
    /\ model = CfBase__init__("ranking", MaxK, <<0, 1>>, None, None, Scores)

ComputePred(user, item, common_sims, common_labels) ==
    /\ \E r \in {compute_pred(model, user, item, Len(common_sims), common_sims, common_labels)} :
          /\ model' = r.self
          /\ out' = [call |-> "compute_pred", common_size |-> Len(common_sims),
                     common_sims |-> common_sims, common_labels |-> common_labels,
                     kind |-> r.kind, value |-> r.value]
    /\ UNCHANGED data_vars

\* the caller ranks for a known user and passes what that user has consumed
RankRecommendations(user, ids, preds, n_rec, filter_consumed, random_rec, rng) ==
    /\ \E r \in {rank_recommendations(model, di, user, ids, preds, n_rec,
                                         di.user_consumed[user], filter_consumed, random_rec, rng)} :
          /\ model' = r.self
          /\ out' = [call |-> "rank_recommendations", user |-> user, ids |-> ids,
                     preds |-> preds, n_rec |-> n_rec, filter_consumed |-> filter_consumed,
                     random_rec |-> random_rec, value |-> r.value]
    /\ UNCHANGED data_vars

RecommendUser(user, n_rec, cold_start, inner_id, filter_consumed, random_rec, rng) ==
    /\ \E r \in {recommend_user(model, di, user, n_rec, cold_start, inner_id,
                                   filter_consumed, random_rec, rng)} :
          /\ model' = r.self
          /\ out' = [call |-> "recommend_user", user |-> user, n_rec |-> n_rec,
                     cold_start |-> cold_start, inner_id |-> inner_id,
                     filter_consumed |-> filter_consumed, random_rec |-> random_rec,
                     kind |-> r.kind, value |-> r.value]
    /\ UNCHANGED data_vars

PrePredictCheck(user, item, inner_id, cold_start) ==
    /\ \E r \in {pre_predict_check(model, di, user, item, inner_id, cold_start)} :
          /\ model' = r.self
          /\ out' = [call |-> "pre_predict_check", user |-> user, item |-> item,
                     inner_id |-> inner_id, cold_start |-> cold_start,
                     kind |-> r.kind, value |-> r.value]
    /\ UNCHANGED data_vars

\* predictions for pairs of a user and an item
NextPred ==
    \E nb \in Neighbors :
        /\ model.print_count < MaxPrint
        /\ ComputePred(0, 1, [k \in 1..Len(nb) |-> nb[k][2]], [k \in 1..Len(nb) |-> nb[k][1]])

SpecPred == InitPred /\ [][NextPred]_vars

\* the ranking of scored candidates
NextRank ==
    \E user \in {0, 1}, cand \in Candidates, n_rec \in 1..MaxRec,
       filter_consumed \in BOOLEAN, random_rec \in BOOLEAN :
        \E rng \in IF random_rec THEN Draws ELSE {NoDraw} :
            /\ model.print_count < MaxPrint
            /\ RankRecommendations(user, cand[1], cand[2], n_rec, filter_consumed, random_rec, rng)

SpecRank == InitRec /\ [][NextRank]_vars

\* recommendation and the check before a prediction, with cold start
NextServe ==
    \/ \E user \in UserLists, n_rec \in 1..MaxRec, cold_start \in ColdStarts,
          inner_id \in BOOLEAN, filter_consumed \in BOOLEAN, random_rec \in BOOLEAN :
          \E rng \in IF random_rec THEN Draws ELSE {NoDraw} :
              /\ model.print_count < MaxPrint
              /\ RecommendUser(user, n_rec, cold_start, inner_id, filter_consumed, random_rec, rng)
    \/ \E pair \in Pairs, inner_id \in BOOLEAN, cold_start \in ColdStarts :
          PrePredictCheck(pair[1], pair[2], inner_id, cold_start)

SpecServe == InitRec /\ [][NextServe]_vars

\* predictions and rankings on one engine, long enough for the warnings of
\* both to run out: a pair with a usable neighbour and one without, a user
\* with a candidate left and one without
NextWarn ==
    \/ \E nb \in {<< >>, <<<<5, 1>>>>} :
          /\ model.print_count < MaxWarn
          /\ ComputePred(0, 1, [k \in 1..Len(nb) |-> nb[k][2]], [k \in 1..Len(nb) |-> nb[k][1]])
    \/ \E user \in {0, 1} :
          /\ model.print_count < MaxWarn
          /\ RankRecommendations(user, <<1>>, <<2>>, 1, TRUE, FALSE, NoDraw)

SpecWarn == InitRec /\ [][NextWarn]_vars

(***************************************************************************)
(* The life of a CfBase engine: construction, fit, save and load.  A       *)
(* similarity matrix is kept as what it is the similarity of, the top-k    *)
(* cache (compute_top_k is abstract) as what it is the top k of; the       *)
(* folder holds the params file and the three matrix files of one model    *)
(* name.                                                                   *)
(***************************************************************************)
\* the engine after __init__ with these arguments
CfBase_new(hparams) ==
    [all_args |-> hparams,
     sim_type |-> hparams.sim_type, k_sim |-> hparams.k_sim,
     store_top_k |-> hparams.store_top_k,
     user_interaction |-> None, item_interaction |-> None,
     sim_matrix |-> None, topk_sim |-> None, print_count |-> 0]

\* a sim_type that is none of the three raises once the interactions are set
CfBase_fit(self, train_data) ==
    LET s1 == [self EXCEPT
                 !.user_interaction = Some(train_data),
                 !.item_interaction =
                     Some([i \in 1..shape1(train_data) |->
                              [u \in 1..Len(train_data) |-> train_data[u][i]]])]
        s2 == [s1 EXCEPT !.sim_matrix = Some([sim |-> self.sim_type, of |-> train_data])]
    IN IF self.sim_type \notin {"cosine", "pearson", "jaccard"}
       THEN [self |-> s1, kind |-> "raise"]
       ELSE IF self.store_top_k
       THEN [self |-> [s2 EXCEPT !.topk_sim = Some([k |-> self.k_sim, of |-> s2.sim_matrix[1]])],
             kind |-> "return"]
       ELSE [self |-> s2, kind |-> "return"]

\* save_params, then the three save_sparse; save_sparse of None raises
CfBase_save(self, folder) ==
    IF self.sim_matrix = None
    THEN [folder EXCEPT !.params = Some(self.all_args)]
    ELSE [params |-> Some(self.all_args),
          sim_matrix |-> self.sim_matrix,
          user_inter |-> self.user_interaction,
          item_inter |-> self.item_interaction]

CfBase_load(folder) ==
    [CfBase_new(folder.params[1]) EXCEPT
        !.sim_matrix = folder.sim_matrix,
        !.user_interaction = folder.user_inter,
        !.item_interaction = folder.item_inter]

\* an engine just built, with or without the top-k cache, and an empty
\* folder; the interaction matrices it may be fitted on have two users and
\* two items
InitCfLife ==
    /\ di = DataInfo__init__(RecArgs)
    /\ ret = <<RecArgs.user_indices[1], RecArgs.item_indices[1]>>
    /\ nops = 0
    /\ last_mutation = "init"
    /\ disk = [params |-> None, sim_matrix |-> None, user_inter |-> None, item_inter |-> None]
    /\ out = NoCall
    /\ \E store_top_k \in BOOLEAN, sim_type \in {"cosine", "jaccard", "euclid"} :
          model = CfBase_new([store_top_k |-> store_top_k, sim_type |-> sim_type,
                              k_sim |-> MaxK])

CfFit(train_data) ==
    /\ \E r \in {CfBase_fit(model, train_data)} :
          /\ model' = r.self
          /\ out' = [call |-> "fit", kind |-> r.kind]
    /\ UNCHANGED data_vars

CfSave ==
    /\ disk' = CfBase_save(model, disk)
    /\ out' = [call |-> "save", kind |-> IF model.sim_matrix = None THEN "raise" ELSE "return"]
    /\ UNCHANGED <<di, nops, last_mutation, ret, model>>

\* the program goes on with the loaded engine; without the matrix files the
\* load raises and the program keeps the engine it has
CfLoad ==
    /\ disk.params # None
    /\ IF disk.sim_matrix = None
       THEN model' = model /\ out' = [call |-> "load", kind |-> "raise"]
       ELSE model' = CfBase_load(disk) /\ out' = [call |-> "load", kind |-> "return"]
    /\ UNCHANGED data_vars

SpecCfLife ==
    InitCfLife
    /\ [][\/ \E train_data \in [1..2 -> [1..2 -> {0, 1}]] : CfFit(train_data)
          \/ CfSave
          \/ CfLoad]_vars

(***************************************************************************)
(* GensimBase, the embedding models trained with gensim's Word2Vec.  The   *)
(* Word2Vec model is kept as its vocabulary (the item tokens), its         *)
(* corpus_count and the epochs it has been trained for; the vector it has  *)
(* learned for a token stands as one fixed-point number that depends on    *)
(* the token and on the epochs.  build_model is abstract in GensimBase,    *)
(* assign_embedding_oov belongs to EmbedBase and recommend_from_embedding  *)
(* to libreco.recommendation.                                              *)
(***************************************************************************)
\* data is what the subclass puts in self.data when it is built for
\* training; a model restored for inference has no data but has embeddings
GensimBase__init__(task, norm_embed, n_epochs, data) ==
    [task |-> task, norm_embed |-> norm_embed, n_epochs |-> n_epochs,
     gensim_model |-> None, data |-> data,
     user_embed |-> None, item_embed |-> None, default_recs |-> None]

tokens_of(data) == UNION {Range(data[k]) : k \in 1..Len(data)}

\* a check_data that lets every model pass
check_data_passes(self) == TRUE

\* whether the assert of check_data holds
check_data(self) == self.data # None

\* the sentences of self.data
sentences_of(self) == IF self.data = None THEN << >> ELSE self.data[1]

build_model(self) ==
    [vocab |-> tokens_of(sentences_of(self)), corpus_count |-> Len(sentences_of(self)),
     epochs |-> 0]

\* gensim_model.train(self.data, total_examples=..., epochs=self.n_epochs)
train(w2v, epochs) == [w2v EXCEPT !.epochs = @ + epochs]

\* gensim_model.wv.get_vector(str(i)) for a token of the vocabulary
get_vector(w2v, i) == <<(i + 1) * w2v.epochs>>

\* x / norm for a vector of one component, a zero norm taken as 1
normalized(embed) ==
    [k \in 1..Len(embed) |->
        <<IF embed[k][1] > 0 THEN 1 ELSE IF embed[k][1] < 0 THEN -1 ELSE 0>>]

\* set_embeddings; get_vector raises KeyError for an item that is not in the
\* vocabulary, before anything is assigned
set_embeddings(self, data_info) ==
    LET items == [i \in 1..n_items(data_info) |-> get_vector(self.gensim_model[1], i - 1)]
        users == [u \in 1..n_users(data_info) |->
                     np_mean0(take(items, data_info.user_consumed[u - 1]))]
    IN IF \E i \in 0..(n_items(data_info) - 1) : i \notin self.gensim_model[1].vocab
       THEN [self |-> self, kind |-> "raise"]
       ELSE [self |-> [self EXCEPT
                          !.item_embed = Some(IF self.norm_embed THEN normalized(items) ELSE items),
                          !.user_embed = Some(IF self.norm_embed THEN normalized(users) ELSE users)],
             kind |-> "return"]

\* the mean embedding is appended as the row of the unknown user / item
assign_embedding_oov(self) ==
    [self EXCEPT !.user_embed = Some(@[1] \o <<np_mean0(@[1])>>),
                 !.item_embed = Some(@[1] \o <<np_mean0(@[1])>>)]

\* the n_rec items of highest inner product with the embedding of user_id
recommend_from_embedding(self, data_info, user_id, n_rec) ==
    LET preds == [i \in 1..n_items(data_info) |->
                     self.user_embed[1][user_id + 1][1] * self.item_embed[1][i][1]]
    IN islice(reversed(argsort(preds)), n_rec)

DefaultRecs == 2000

GensimBase_fit(self, data_info) ==
    IF ~check_data(self) THEN [self |-> self, kind |-> "raise"]
    ELSE LET built == IF self.gensim_model = None
                      THEN [self EXCEPT !.gensim_model = Some(build_model(self))]
                      ELSE self
             trained == [built EXCEPT !.gensim_model = Some(train(@[1], self.n_epochs))]
             embedded == set_embeddings(trained, data_info)
             with_oov == assign_embedding_oov(embedded.self)
         IN IF embedded.kind = "raise" THEN embedded
            ELSE [self |-> [with_oov EXCEPT !.default_recs =
                               Some(recommend_from_embedding(with_oov, data_info,
                                       n_users(data_info), Min(DefaultRecs, n_items(data_info))))],
                  kind |-> "return"]

\* saved is the Word2Vec model in the file <model_name>_gensim.pkl
rebuild_model(self, saved) ==
    IF ~check_data(self) THEN [self |-> self, kind |-> "raise"]
    ELSE [self |-> [self EXCEPT !.gensim_model =
                       Some([saved EXCEPT !.vocab = @ \cup tokens_of(sentences_of(self))])],
          kind |-> "return"]

\* random walks over the items, as the subclass's get_data makes them
Corpora == { << <<0, 1>>, <<1, 2>> >>, << <<0, 1, 2>> >>, << <<0, 1>> >> }

SavedModels == { [vocab |-> {0, 1}, corpus_count |-> 1, epochs |-> 1],
                 [vocab |-> {0, 1, 2}, corpus_count |-> 2, epochs |-> 2] }

\* models built for training, and models restored for inference from the
\* embeddings a trained model saved
InitGensim ==
    /\ InitCf
    /\ \E norm_embed \in BOOLEAN, n_epochs \in 1..2 :
          \/ \E data \in Corpora :
                model = GensimBase__init__("ranking", norm_embed, n_epochs, Some(data))
          \/ \E data \in Corpora :
                /\ GensimBase_fit(GensimBase__init__("ranking", norm_embed, n_epochs, Some(data)),
                                  di).kind = "return"
                /\ model = [GensimBase_fit(GensimBase__init__("ranking", norm_embed, n_epochs,
                                                              Some(data)), di).self
                               EXCEPT !.data = None, !.gensim_model = None]

Fit ==
    /\ IF model.gensim_model = None THEN TRUE ELSE model.gensim_model[1].epochs < MaxTrain
    /\ \E r \in {GensimBase_fit(model, di)} :
          /\ model' = r.self
          /\ out' = [call |-> "fit", kind |-> r.kind]
    /\ UNCHANGED data_vars

RebuildModel(saved) ==
    /\ \E r \in {rebuild_model(model, saved)} :
          /\ model' = r.self
          /\ out' = [call |-> "rebuild_model", kind |-> r.kind]
    /\ UNCHANGED data_vars

NextGensim ==
    \/ Fit
    \/ \E saved \in SavedModels : RebuildModel(saved)

SpecGensim == InitGensim /\ [][NextGensim]_vars

(***************************************************************************)
(* Properties of the identifier index and of the unique matrices.          *)
(***************************************************************************)
\* the entities a unique matrix has one row for
entities_of(self, m) ==
    IF m \in {"user_sparse_unique", "user_dense_unique"}
    THEN self.user_unique_vals
    ELSE self.item_unique_vals

\* C1: over every step of every run (so over every sequence of incremental
\* expansions), an external user or item id that has an inner id keeps that
\* inner id, and an inner id that stands for an external id keeps standing
\* for it.
C1_InnerIdsStable ==
    [][ /\ \A u \in DOMAIN user2id(di) :
              u \in DOMAIN user2id(di') /\ user2id(di')[u] = user2id(di)[u]
        /\ \A j \in DOMAIN id2user(di) :
              j \in DOMAIN id2user(di') /\ id2user(di')[j] = id2user(di)[j]
        /\ \A i \in DOMAIN item2id(di) :
              i \in DOMAIN item2id(di') /\ item2id(di')[i] = item2id(di)[i]
        /\ \A j \in DOMAIN id2item(di) :
              j \in DOMAIN id2item(di') /\ id2item(di')[j] = id2item(di)[j] ]_vars

\* two expansions have happened, the second one adding a user and an item
\* below the known ones
C1_Witness ==
    /\ di.old_n_users = Some(3)
    /\ di.user_unique_vals = <<12, 13, 14, 11>>
    /\ di.item_unique_vals = <<22, 23, 21, 24>>
    /\ user2id(di)[11] = 3
    /\ item2id(di)[21] = 2

\* C2: in every state, whatever reads and expansions came before, a read of
\* n_users, user2id, id2user (n_items, item2id, id2item) returns the value
\* derived from the current unique values: the mapping sends the unique
\* values one-to-one onto 0..n-1 by position and the inverse mapping undoes it.
C2_ReadsAreCurrent ==
    /\ n_users(di) = Len(di.user_unique_vals)
    /\ n_items(di) = Len(di.item_unique_vals)
    /\ DOMAIN user2id(di) = Range(di.user_unique_vals)
    /\ \A k \in 1..Len(di.user_unique_vals) : user2id(di)[di.user_unique_vals[k]] = k - 1
    /\ {user2id(di)[u] : u \in DOMAIN user2id(di)} = 0..(Len(di.user_unique_vals) - 1)
    /\ DOMAIN id2user(di) = 0..(Len(di.user_unique_vals) - 1)
    /\ \A k \in 1..Len(di.user_unique_vals) : id2user(di)[k - 1] = di.user_unique_vals[k]
    /\ DOMAIN item2id(di) = Range(di.item_unique_vals)
    /\ \A k \in 1..Len(di.item_unique_vals) : item2id(di)[di.item_unique_vals[k]] = k - 1
    /\ {item2id(di)[i] : i \in DOMAIN item2id(di)} = 0..(Len(di.item_unique_vals) - 1)
    /\ DOMAIN id2item(di) = 0..(Len(di.item_unique_vals) - 1)
    /\ \A k \in 1..Len(di.item_unique_vals) : id2item(di)[k - 1] = di.item_unique_vals[k]

\* every cached property has been read after an expansion that added users
\* and items
C2_Witness ==
    /\ Len(di.user_unique_vals) = 4 /\ Len(di.item_unique_vals) = 4
    /\ di._n_users # None /\ di._user2id # None /\ di._id2user # None
    /\ di._n_items # None /\ di._item2id # None /\ di._id2item # None

\* what an expansion may change besides the snapshot
ExpandedFields ==
    MatrixNames \cup {"user_unique_vals", "item_unique_vals",
                      "sparse_unique_vals", "sparse_unique_idxs",
                      "multi_sparse_unique_vals", "multi_sparse_unique_idxs"}

SnapshotFields ==
    {"old_n_users", "old_n_items", "old_sparse_len", "old_sparse_oov", "old_sparse_offset"}

\* C3 as claimed: from every reachable state, a second expansion with the
\* same data leaves the unique values, the matrices, the dictionaries and
\* the snapshot fields as the first one left them.
C3_IdempotentWithSnapshot ==
    \A data \in Batches :
        LET s1 == expand_sparse_unique_vals_and_matrix(di, data)
            s2 == expand_sparse_unique_vals_and_matrix(s1, data)
        IN \A f \in ExpandedFields \cup SnapshotFields : s2[f] = s1[f]

\* the sizes of the category dictionaries, in the order of the sparse columns
dict_sizes(self) ==
    [k \in 1..Len(sparse_col(self).name) |->
        Len(self.sparse_unique_vals[1][sparse_col(self).name[k]])]

\* C3 as amended: from every reachable state, a second expansion with the
\* same data leaves the unique values, the matrices, the dictionaries,
\* old_sparse_oov and old_sparse_offset as the first one left them, and takes
\* the snapshot again: old_n_users, old_n_items and old_sparse_len hold the
\* sizes the first expansion produced.
C3_IdempotentButSnapshot ==
    \A data \in Batches :
        LET s1 == expand_sparse_unique_vals_and_matrix(di, data)
            s2 == expand_sparse_unique_vals_and_matrix(s1, data)
        IN /\ \A f \in ExpandedFields \cup {"old_sparse_oov", "old_sparse_offset"} :
                 s2[f] = s1[f]
           /\ s2.old_n_users = Some(Len(s1.user_unique_vals))
           /\ s2.old_n_items = Some(Len(s1.item_unique_vals))
           /\ s1.sparse_unique_vals # None => s2.old_sparse_len = Some(dict_sizes(s1))

\* the state after a first expansion that added users, with a frame of such
\* users whose second expansion changes the snapshot and nothing else
C3_Witness ==
    /\ di.old_n_users # None
    /\ Len(di.user_unique_vals) > di.old_n_users[1]
    /\ \E data \in Batches :
          LET s2 == expand_sparse_unique_vals_and_matrix(di, data)
          IN /\ \E k \in DOMAIN data["user"] :
                   user2id(di)[data["user"][k]] >= di.old_n_users[1]
             /\ s2.old_n_users # di.old_n_users
             /\ \A f \in ExpandedFields : s2[f] = di[f]

\* C5 as claimed: in every reachable state a unique matrix that is present
\* has one row per entity and one more, the oov row.
C5_RowsAlwaysEntitiesPlusOne ==
    \A m \in MatrixNames :
        di[m] # None => Len(di[m][1]) = Len(entities_of(di, m)) + 1

ZeroRow(matrix) == [j \in 1..shape1(matrix) |-> 0]

\* C5 as amended: a unique matrix that is present has one row per entity
\* plus the oov row after construction, and never more rows than that.  A
\* step that adds k > 0 entities takes the last row away and puts k zero
\* rows in its place: the other rows stay, the zero rows come last, no oov
\* row follows them, and a matrix that held its oov row is left with exactly
\* one row per entity.  Only add_oov gives the row back: a step that keeps
\* the entities and changes the number of rows finds one row per entity and
\* appends one row.
C5_RowsAcrossExpansion ==
    /\ \A m \in MatrixNames :
          di[m] # None => Len(di[m][1]) = Len(entities_of(di, m)) + 1
    /\ [][ \A m \in MatrixNames :
              di[m] # None =>
                  LET n == Len(entities_of(di, m))
                      n2 == Len(entities_of(di', m))
                      rows == di[m][1]
                      rows2 == di'[m][1]
                  IN /\ di'[m] # None
                     /\ Len(rows2) <= n2 + 1
                     /\ n2 > n =>
                           /\ Len(rows2) = Len(rows) - 1 + (n2 - n)
                           /\ \A i \in 1..(Len(rows) - 1) : rows2[i] = rows[i]
                           /\ \A i \in Len(rows)..Len(rows2) : rows2[i] = ZeroRow(rows)
                           /\ Len(rows) = n + 1 => Len(rows2) = n2
                     /\ (n2 = n /\ Len(rows2) # Len(rows)) =>
                           /\ Len(rows) = n
                           /\ Len(rows2) = n + 1
                           /\ \A i \in 1..n : rows2[i] = rows[i] ]_vars

\* an expansion has added two users: the user matrices have four rows, the
\* old oov row is gone and the last two rows are zero rows
C5_Witness ==
    /\ di.user_sparse_unique # None
    /\ Len(di.user_unique_vals) = 4
    /\ di.user_sparse_unique[1] = << <<0>>, <<1>>, <<0>>, <<0>> >>
    /\ Len(di.user_dense_unique[1]) = 4

(***************************************************************************)
(* Persistence                                                             *)
(***************************************************************************)
\* what a save followed by a load in the current state would return
reloaded == load(save(di, disk))

same_persisted(a, b) ==
    /\ user2id(a) = user2id(b)
    /\ item2id(a) = item2id(b)
    /\ \A m \in MatrixNames : a[m] = b[m]
    /\ a.user_consumed = b.user_consumed
    /\ a.item_consumed = b.item_consumed

\* every unique feature matrix that is present ends with its oov row
has_oov_rows(self) ==
    \A m \in MatrixNames : self[m] # None => Len(self[m][1]) = Len(entities_of(self, m)) + 1

C6_NeverRecommendsConsumed ==
    (out.call = "rank_recommendations" /\ out.filter_consumed)
        => \A k \in 1..Len(out.value) :
              out.value[k] \notin Range(di.user_consumed[out.user])

\* whether the identifier index holds the user / the item a caller names
is_known_user(u, inner_id) ==
    IF inner_id THEN u \in 0..(Len(di.user_unique_vals) - 1)
    ELSE u \in Range(di.user_unique_vals)

is_known_item(i, inner_id) ==
    IF inner_id THEN i \in 0..(Len(di.item_unique_vals) - 1)
    ELSE i \in Range(di.item_unique_vals)

\* the first n_rec popular items, as external or as inner ids
popularity_list(inner_id, n_rec) ==
    LET top == SubSeq(di.popular_items[1], 1, Min(n_rec, Len(di.popular_items[1])))
    IN IF inner_id
       THEN [k \in 1..Len(top) |-> index_of(di.item_unique_vals, top[k])]
       ELSE top

\* C7: recommend_user with cold_start='popular' gives every user id that is
\* absent from the identifier index the popularity list for n_rec, whichever
\* unknown id was supplied and whatever filter_consumed and random_rec are
C7_ColdStartIsPopularityList ==
    (out.call = "recommend_user" /\ out.cold_start = "popular")
        => /\ out.kind = "return"
           /\ \A k \in 1..Len(out.user) :
                 ~is_known_user(out.user[k], out.inner_id)
                    => /\ out.user[k] \in DOMAIN out.value[1]
                       /\ out.value[1][out.user[k]] = popularity_list(out.inner_id, out.n_rec)

\* two different unknown users in one call, with filtering and random draw on
C7_Witness ==
    /\ out.call = "recommend_user"
    /\ out.user = <<-1, -99999>>
    /\ out.cold_start = "popular"
    /\ ~out.inner_id /\ out.filter_consumed /\ out.random_rec
    /\ out.n_rec = 2
    /\ out.kind = "return"
    /\ out.value[1][-1] = <<22, 23>>
    /\ out.value[1][-99999] = <<22, 23>>

\* whether the last call named a user or an item the index does not hold
names_unknown ==
    \/ \E k \in 1..Len(out.user) : ~is_known_user(out.user[k], out.inner_id)
    \/ /\ out.call = "pre_predict_check"
       /\ \E k \in 1..Len(out.item) : ~is_known_item(out.item[k], out.inner_id)

\* C8 as stated: recommend_user and pre_predict_check with a cold_start
\* other than 'popular' raise and return no result, for every user / item
C8_OtherStrategyAlwaysRaises ==
    (out.call \in {"recommend_user", "pre_predict_check"} /\ out.cold_start # "popular")
        => (out.kind = "raise" /\ out.value = None)

\* C8 amended: with a cold_start other than 'popular', recommend_user and
\* pre_predict_check raise and return no result exactly when one of the
\* users (for pre_predict_check: users or items) named is unknown; when all
\* are known the call returns its result as it does with 'popular'
C8_OtherStrategyRaisesOnUnknown ==
    (out.call \in {"recommend_user", "pre_predict_check"} /\ out.cold_start # "popular")
        => /\ (out.kind = "raise") <=> names_unknown
           /\ (out.kind = "raise") => out.value = None
           /\ (out.kind = "return") => out.value # None

\* known users served under an unsupported strategy
C8_Witness ==
    /\ out.call = "recommend_user"
    /\ out.user = <<12, 13>>
    /\ out.cold_start = "sss"
    /\ ~out.inner_id
    /\ out.kind = "return"
    /\ DOMAIN out.value[1] = {12, 13}

(***************************************************************************)
(* Prediction from the nearest neighbours                                  *)
(***************************************************************************)
positive_neighbors == {k \in 1..Len(out.common_sims) : out.common_sims[k] > 0}

\* the <<label, sim>> pairs the last compute_pred call selected
used_neighbors == k_neighbors(model, out.common_sims, out.common_labels)

C10_UsesTopPositiveNeighbors ==
    (out.call = "compute_pred" /\ out.common_size # 0 /\ positive_neighbors # {})
        => /\ Len(used_neighbors) = Min(model.k_sim, Cardinality(positive_neighbors))
           /\ \A k \in 1..Len(used_neighbors) : used_neighbors[k][2] > 0
           /\ \A k \in 1..(Len(used_neighbors) - 1) :
                 used_neighbors[k][2] >= used_neighbors[k + 1][2]
           /\ \E pos \in [1..Len(used_neighbors) -> positive_neighbors] :
                 /\ \A i, j \in DOMAIN pos : pos[i] = pos[j] => i = j
                 /\ \A i \in DOMAIN pos :
                       used_neighbors[i] = <<out.common_labels[pos[i]], out.common_sims[pos[i]]>>
                 /\ \A k \in positive_neighbors \ Range(pos) :
                       \A i \in DOMAIN pos : out.common_sims[k] <= used_neighbors[i][2]

\* two positive neighbours, the better one second, and room for one only
C10_Witness ==
    /\ out.call = "compute_pred"
    /\ out.common_sims = <<1, 2>>
    /\ out.common_labels = <<1, 5>>
    /\ model.k_sim = 1
    /\ model.task = "rating"
    /\ used_neighbors = << <<5, 2>> >>
    /\ out.value = <<5, 1>>

(***************************************************************************)
(* Ranking by score                                                        *)
(***************************************************************************)
\* the positions of out.ids that are left after the filtering of the last
\* rank_recommendations call
remaining_candidates ==
    {k \in 1..Len(out.ids) :
        ~out.filter_consumed \/ out.ids[k] \notin Range(di.user_consumed[out.user])}

\* C11: when random_rec is false and a candidate is left after filtering,
\* rank_recommendations returns min(n_rec, number of candidates left) ids,
\* each a candidate that is left and none twice, in non-increasing order of
\* score, and every candidate left out scores no more than any returned one
C11_TopByScore ==
    (out.call = "rank_recommendations" /\ ~out.random_rec /\ remaining_candidates # {})
        => /\ Len(out.value) = Min(out.n_rec, Cardinality(remaining_candidates))
           /\ \E pos \in [1..Len(out.value) -> remaining_candidates] :
                 /\ \A i, j \in DOMAIN pos : pos[i] = pos[j] => i = j
                 /\ \A i \in DOMAIN pos : out.value[i] = out.ids[pos[i]]
                 /\ \A i \in 1..(Len(pos) - 1) : out.preds[pos[i]] >= out.preds[pos[i + 1]]
                 /\ \A k \in remaining_candidates \ Range(pos) :
                       \A i \in DOMAIN pos : out.preds[k] <= out.preds[pos[i]]

\* two candidates, the better one second, and room for one only
C11_Witness ==
    /\ out.call = "rank_recommendations"
    /\ ~out.random_rec
    /\ out.user = 1
    /\ out.ids = <<1, 2>>
    /\ out.preds = <<1, 2>>
    /\ out.n_rec = 1
    /\ out.value = <<2>>

(***************************************************************************)
(* Warnings                                                                *)
(***************************************************************************)
\* C12 as stated: over any sequence of prediction and recommendation calls
\* on one engine the warning of compute_pred has been printed on each of the
\* first 6 default predictions and on none after, however many fallbacks of
\* rank_recommendations came in between
C12_FirstSixDefaultsWarn ==
    model.pred_warnings = Min(model.default_preds, PredWarnings - 1)

(***************************************************************************)
(* Persistence of the snapshot                                             *)
(***************************************************************************)
\* C13 as stated: save followed by load reproduces old_n_users, old_n_items,
\* old_sparse_len, old_sparse_oov and old_sparse_offset of a DataInfo that
\* has been expanded
C13_SnapshotRoundTrip ==
    di.old_n_users # None => \A f \in SnapshotFields : reloaded[f] = di[f]

\* C13 amended: save writes none of the snapshot fields; in the object load
\* returns, old_n_users, old_n_items, old_sparse_len, old_sparse_oov and
\* old_sparse_offset are all None, whatever they were when it was saved
C13_SnapshotIsNotSaved ==
    \A f \in SnapshotFields : reloaded[f] = None

\* an expanded DataInfo with features, its arguments stored for saving
C13_Witness ==
    /\ last_mutation = "store_args"
    /\ di.old_n_users = Some(2)
    /\ di.old_sparse_len = Some(<<2, 2>>)
    /\ Len(di.user_unique_vals) = 3
    /\ reloaded.old_n_users = None
    /\ Len(reloaded.user_unique_vals) = 3

(***************************************************************************)
(* Retraining a restored model                                             *)
(***************************************************************************)
GensimState == {"gensim_model", "user_embed", "item_embed", "default_recs"}

\* C14: a model without training data (restored for inference) that is asked
\* to fit or to rebuild_model fails, and gensim_model, user_embed, item_embed
\* and default_recs are what they were before the call
C14_RetrainWithoutDataFails ==
    [][model.data = None
          => /\ out'.kind = "raise"
             /\ \A f \in GensimState : model'[f] = model[f]]_vars

\* a restored model, with its embeddings, has refused to fit
C14_Witness ==
    /\ out = [call |-> "fit", kind |-> "raise"]
    /\ model.data = None
    /\ model.gensim_model = None
    /\ model.user_embed # None
    /\ model.default_recs # None

\* a step that is the expansion by this data
is_expansion_by(data) ==
    /\ nops' = nops + 1
    /\ last_mutation' = "expand"
    /\ di' = expand_sparse_unique_vals_and_matrix(di, data)

\* C15 as stated: over every expansion, the novel user ids and the novel
\* item ids of the new data are appended to the unique values in the order
\* in which the new data first has them, each once, so that the k-th novel
\* id met gets inner id old_n + k - 1.
C15_AppendedInEncounterOrder ==
    [][\A data \in Batches :
          is_expansion_by(data)
          => /\ di'.user_unique_vals
                  = di.user_unique_vals \o first_seen_diff(data["user"], di.user_unique_vals)
             /\ di'.item_unique_vals
                  = di.item_unique_vals \o first_seen_diff(data["item"], di.item_unique_vals)]_vars

\* C15: over every expansion, the novel user ids and the novel item ids of
\* the new data are appended to the unique values in ascending order of
\* their value, each once, so that the k-th smallest novel id gets inner id
\* old_n + k - 1, whatever the order of the rows of the new data.
C15_AppendedInAscendingOrder ==
    [][\A data \in Batches :
          is_expansion_by(data)
          => LET new_users == SortedSeq(Range(data["user"]) \ Range(di.user_unique_vals))
                 new_items == SortedSeq(Range(data["item"]) \ Range(di.item_unique_vals))
             IN /\ di'.user_unique_vals = di.user_unique_vals \o new_users
                /\ di'.item_unique_vals = di.item_unique_vals \o new_items
                /\ \A k \in 1..Len(new_users) :
                       user2id(di')[new_users[k]] = Len(di.user_unique_vals) + k - 1
                /\ \A k \in 1..Len(new_items) :
                       item2id(di')[new_items[k]] = Len(di.item_unique_vals) + k - 1]_vars

\* one expansion has added users 14 and 11, whose rows come in either order
\* in the frames, and item 24
C15_Witness ==
    /\ last_mutation = "expand"
    /\ di.old_n_users = Some(2) /\ di.old_n_items = Some(2)
    /\ di.user_unique_vals = <<12, 13, 11, 14>>
    /\ di.item_unique_vals = <<22, 23, 24>>

\* C16: in every state where the snapshot of the sparse columns has been
\* taken, old_sparse_len, old_sparse_oov and old_sparse_offset each have one
\* entry per sparse column, the columns of a multi-sparse field included,
\* and entry i of the oov list and of the offset list is the oov and the
\* offset of sparse column i.
C16_OneEntryPerSparseColumn ==
    di.old_sparse_len # None
    => LET n == Len(sparse_col(di).name)
       IN /\ Len(di.old_sparse_len[1]) = n
          /\ Len(di.old_sparse_oov[1]) = n
          /\ Len(di.old_sparse_offset[1]) = n
          /\ \A i \in 1..n : /\ di.old_sparse_oov[1][i] = di.sparse_oov[1][i]
                              /\ di.old_sparse_offset[1][i] = di.sparse_offset[1][i]

\* the cells of matrix m that differ between two objects are all in rows that
\* are the inner id of a row of the frame and in columns the frame has
only_incoming_cells(self, after, m, col_info, ids, mapping, data) ==
    IF self[m] = None THEN after[m] = None
    ELSE /\ after[m] # None
         /\ Len(after[m][1]) = Len(self[m][1])
         /\ \A i \in 1..Len(self[m][1]) :
               /\ Len(after[m][1][i]) = Len(self[m][1][i])
               /\ \A j \in 1..Len(self[m][1][i]) :
                     after[m][1][i][j] # self[m][1][i][j]
                     => /\ col_info.name[j] \in DOMAIN data
                        /\ \E k \in 1..Len(ids) :
                              ids[k] \in DOMAIN mapping /\ mapping[ids[k]] = i - 1

\* the oov row of a matrix that has one is the same in both objects
same_oov_row(self, after, m) ==
    (self[m] # None /\ Len(self[m][1]) = Len(entities_of(self, m)) + 1)
    => after[m][1][Len(self[m][1])] = self[m][1][Len(self[m][1])]

\* the identifier index and the schema are the same in both objects
same_index_and_schema(self, after) ==
    /\ after.user_unique_vals = self.user_unique_vals
    /\ after.item_unique_vals = self.item_unique_vals
    /\ user2id(after) = user2id(self) /\ item2id(after) = item2id(self)
    /\ id2user(after) = id2user(self) /\ id2item(after) = id2item(self)
    /\ after.col_name_mapping = self.col_name_mapping
    /\ after.sparse_offset = self.sparse_offset
    /\ after.sparse_oov = self.sparse_oov
    /\ after.sparse_unique_vals = self.sparse_unique_vals
    /\ after.sparse_unique_idxs = self.sparse_unique_idxs

\* C17: over every step that is a call of assign_user_features or of
\* assign_item_features with a frame, a cell of the unique matrices of that
\* kind differs afterwards only if its row is the inner id of a row of the
\* frame and its column is a feature column the frame has; the oov row, the
\* matrices of the other kind, the identifier index and the schema offsets
\* and oov are as before.
C17_AssignWritesOnlyIncomingCells ==
    [][(nops' = nops + 1 /\ last_mutation' = "assign_features")
       => /\ \A user_data \in UserFrames :
                di' = assign_user_features(di, user_data).self
                => /\ only_incoming_cells(di, di', "user_sparse_unique", user_sparse_col(di),
                                           user_data["user"], user2id(di), user_data)
                   /\ only_incoming_cells(di, di', "user_dense_unique", user_dense_col(di),
                                           user_data["user"], user2id(di), user_data)
                   /\ same_oov_row(di, di', "user_sparse_unique")
                   /\ same_oov_row(di, di', "user_dense_unique")
                   /\ di'.item_sparse_unique = di.item_sparse_unique
                   /\ di'.item_dense_unique = di.item_dense_unique
                   /\ same_index_and_schema(di, di')
          /\ \A item_data \in ItemFrames :
                di' = assign_item_features(di, item_data).self
                => /\ only_incoming_cells(di, di', "item_sparse_unique", item_sparse_col(di),
                                           item_data["item"], item2id(di), item_data)
                   /\ only_incoming_cells(di, di', "item_dense_unique", item_dense_col(di),
                                           item_data["item"], item2id(di), item_data)
                   /\ same_oov_row(di, di', "item_sparse_unique")
                   /\ same_oov_row(di, di', "item_dense_unique")
                   /\ di'.user_sparse_unique = di.user_sparse_unique
                   /\ di'.user_dense_unique = di.user_dense_unique
                   /\ same_index_and_schema(di, di')]_vars

\* the frame with users 13 and 11 and no age column has been assigned to the
\* training data: the sparse cell of user 13 is written, user 11 is unknown,
\* the dense matrix and the oov rows are as they were
C17_Witness ==
    /\ last_mutation = "assign_features"
    /\ di.user_unique_vals = <<12, 13>>
    /\ di.user_sparse_unique = Some(<< <<0>>, <<0>>, <<2>> >>)
    /\ di.user_dense_unique = Some(<< <<10>>, <<30>>, <<20>> >>)

\* how many times x occurs in seq
count_in(seq, x) == Cardinality({k \in 1..Len(seq) : seq[k] = x})

\* how many times the pair of u and i occurs in two index arrays
count_pair(users, items, u, i) ==
    Cardinality({k \in 1..Min(Len(users), Len(items)) : users[k] = u /\ items[k] = i})

\* C18: in every state user_consumed and item_consumed mirror each other
\* and the index arrays they were last built from: their keys are the
\* users and the items of the arrays, and item i occurs in user_consumed[u]
\* as many times as user u occurs in item_consumed[i], which is the number
\* of occurrences of the pair in the arrays.  A state where one of the two
\* had been replaced without the other would not have this.
C18_ConsumedMirrorImages ==
    LET users == ret[1]
        items == ret[2]
    IN /\ DOMAIN di.user_consumed = Range(users)
       /\ DOMAIN di.item_consumed = Range(items)
       /\ \A u \in Range(users), i \in Range(items) :
             /\ count_in(di.user_consumed[u], i) = count_pair(users, items, u, i)
             /\ count_in(di.item_consumed[i], u) = count_pair(users, items, u, i)

\* the consumption has been rebuilt from the old interactions merged with a
\* frame that has the pair of user 12 and item 22 again
C18_Witness ==
    /\ last_mutation = "update_consumed"
    /\ count_pair(ret[1], ret[2], 0, 0) = 2
    /\ count_in(di.user_consumed[0], 0) = 2
    /\ count_in(di.item_consumed[0], 0) = 2

\* the families a column-family property subscripts the mapping with
families_read(p) ==
    IF p = "user_col" THEN {"user_sparse_col", "user_dense_col"}
    ELSE IF p = "item_col" THEN {"item_sparse_col", "item_dense_col"}
    ELSE {p}

\* the mapping is there and lacks a family the last read needs
lacks_family ==
    /\ ~no_mapping(di)
    /\ ~(families_read(out.call) \subseteq DOMAIN di.col_name_mapping[1])

\* C19 as stated: after the read of a column-family property of a DataInfo
\* whose column-name mapping is missing, or lacks the family read, the read
\* has failed with an error.
C19_MissingMappingOrFamilyFails ==
    (out # NoCall /\ (no_mapping(di) \/ lacks_family)) => out.kind = "raise"

\* C19: after the read of a column-family property, the read has failed
\* (KeyError) if the mapping is there and lacks a family the property reads;
\* if the mapping is missing (None or empty) the read has returned the
\* empty Feature, or the empty list for user_col and item_col; otherwise it
\* has returned a value.
C19_MissingFamilyFailsMissingMappingIsEmpty ==
    out # NoCall
    => IF no_mapping(di)
       THEN /\ out.kind = "return"
            /\ out.value = IF out.call \in {"user_col", "item_col"} THEN << >> ELSE EmptyFeature
       ELSE out.kind = (IF lacks_family THEN "raise" ELSE "return")

\* user_col has been read on a mapping that has the sparse user columns and
\* not the dense ones
C19_Witness ==
    /\ out.call = "user_col" /\ out.kind = "raise"
    /\ ~no_mapping(di)
    /\ "user_sparse_col" \in DOMAIN di.col_name_mapping[1]
    /\ "user_dense_col" \notin DOMAIN di.col_name_mapping[1]

\* the snapshot of the dictionary sizes in after is that of the dictionaries
\* of before: one entry per sparse column, the size of the column's
\* dictionary where it has one
old_sparse_len_of(before, after) ==
    IF before.sparse_unique_vals = None /\ before.multi_sparse_unique_vals = None
    THEN after.old_sparse_len = before.old_sparse_len
    ELSE LET names == sparse_col(before).name
         IN /\ after.old_sparse_len # None
            /\ Len(after.old_sparse_len[1]) = Len(names)
            /\ \A k \in 1..Len(names) :
                  /\ in_dict(before.sparse_unique_vals, names[k])
                     => after.old_sparse_len[1][k] = Len(before.sparse_unique_vals[1][names[k]])
                  /\ in_dict(before.multi_sparse_unique_vals, names[k])
                     => after.old_sparse_len[1][k]
                          = Len(before.multi_sparse_unique_vals[1][names[k]])

\* C20: over every expansion, old_n_users and old_n_items afterwards are the
\* numbers of users and items before the call, the number of users (items)
\* has grown by the number of distinct novel user (item) ids of the new
\* data, and old_sparse_len holds the sizes the dictionaries had before the
\* call.
C20_SnapshotIsPreExpansion ==
    [][\A data \in Batches :
          is_expansion_by(data)
          => /\ di'.old_n_users = Some(Len(di.user_unique_vals))
             /\ di'.old_n_items = Some(Len(di.item_unique_vals))
             /\ n_users(di') - di'.old_n_users[1]
                  = Cardinality(Range(data["user"]) \ Range(di.user_unique_vals))
             /\ n_items(di') - di'.old_n_items[1]
                  = Cardinality(Range(data["item"]) \ Range(di.item_unique_vals))
             /\ old_sparse_len_of(di, di')]_vars

\* an expansion of the training data has added two users and the third
\* value of sex; the snapshot has the two users and the two values of before
C20_Witness ==
    /\ last_mutation = "expand"
    /\ di.old_n_users = Some(2) /\ Len(di.user_unique_vals) = 4
    /\ di.old_sparse_len = Some(<<2, 2>>)
    /\ Len(di.sparse_unique_vals[1]["sex"]) = 3

(***************************************************************************)
(* Properties of the re-basing of the stored sparse indices.               *)
(***************************************************************************)
\* the sizes of the dictionaries of the sparse columns, in column order
dict_lens(self) ==
    [i \in 1..Len(sparse_col(self).name) |->
        Len(self.sparse_unique_vals[1][sparse_col(self).name[i]])]

\* the snapshot is that of offsets that fitted the dictionaries it was taken
\* of, and the offsets fit the dictionaries of now: an expansion of a
\* data set with current offsets, followed by their recomputation
rebase_ready(self) ==
    /\ self.sparse_unique_vals # None
    /\ self.old_sparse_len # None
    /\ self.old_sparse_offset = Some(offsets_for(self.old_sparse_len[1]))
    /\ self.sparse_offset = Some(offsets_for(dict_lens(self)))

is_rebasing == nops' = nops + 1 /\ last_mutation' = "modify_sparse_indices"

\* the column of matrix m that holds sparse column i (1-based), or 0
matrix_column(self, m, i) ==
    LET idx == IF m = "user_sparse_unique" THEN user_sparse_col(self).index
               ELSE item_sparse_col(self).index
    IN IF \E j \in 1..Len(idx) : idx[j] = i - 1
       THEN CHOOSE j \in 1..Len(idx) : idx[j] = i - 1
       ELSE 0

\* every stored index of sparse column i is, after the step, what it was
\* plus delta
column_shifted_by(m, i, delta) ==
    LET j == matrix_column(di, m, i)
    IN (di[m] # None /\ j > 0)
       => /\ di'[m] # None /\ Len(di'[m][1]) = Len(di[m][1])
          /\ \A r \in 1..Len(di[m][1]) : di'[m][1][r][j] = di[m][1][r][j] + delta

stored_rows(self, m) ==
    LET old_n == IF m = "user_sparse_unique" THEN self.old_n_users[1] ELSE self.old_n_items[1]
    IN (1..Min(old_n, Len(self[m][1])))
       \cup (IF Len(self[m][1]) = Len(entities_of(self, m)) + 1 THEN {Len(self[m][1])} ELSE {})

\* C22: over every re-basing that follows an expansion and the
\* recomputation of the offsets, a stored index that was the index of a
\* known category of its column under the offsets of the snapshot is the
\* index of the same category under the new offsets, and a stored index
\* that was the oov of its column, the one in the oov row included, is the
\* new oov of the column.
C22_RebasingPreservesMeaning ==
    [][(is_rebasing /\ rebase_ready(di))
       => \A m \in {"user_sparse_unique", "item_sparse_unique"} :
            \A i \in 1..Len(dict_lens(di)) :
               LET j == matrix_column(di, m, i)
                   old_offset == di.old_sparse_offset[1][i]
                   old_len == di.old_sparse_len[1][i]
               IN (di[m] # None /\ j > 0)
                  => \A r \in stored_rows(di, m) :
                        LET stored == di[m][1][r][j]
                            rebased == di'[m][1][r][j]
                        IN /\ (old_offset <= stored /\ stored < old_offset + old_len)
                              => rebased - di'.sparse_offset[1][i] = stored - old_offset
                           /\ stored = di.old_sparse_oov[1][i]
                              => rebased = di'.sparse_oov[1][i]]_vars

(***************************************************************************)
(* Properties of the category dictionaries.                                *)
(***************************************************************************)
\* the columns of the field whose dictionary is kept under main: main itself
\* and the columns the mapping files under it
columns_of_field(self, main) ==
    {main} \cup {c \in DOMAIN self.col_name_mapping[1]["multi_sparse"] :
                    self.col_name_mapping[1]["multi_sparse"][c] = main}

\* the dictionary has the values of before at their positions, and idxs is
\* the position of every value
grown_dictionary(before, after, idxs) ==
    /\ Len(after) >= Len(before)
    /\ SubSeq(after, 1, Len(before)) = before
    /\ idxs = dict_zip(after, Len(after))

\* C23: over every expansion, every value the new data has in a sparse
\* column is in the dictionary of the column afterwards, every value it has
\* in a column of a multi-sparse field is in the dictionary of the field,
\* every dictionary has its former values at their former positions, and
\* sparse_unique_idxs and multi_sparse_unique_idxs give the position of
\* every value of the dictionaries.
C23_DictionariesCoverNewData ==
    [][\A data \in MultiBatches :
          (nops' = nops + 1 /\ last_mutation' = "expand"
           /\ di' = expand_sparse_unique_vals_and_matrix(di, data))
          => /\ \A col \in DOMAIN di.sparse_unique_vals[1] :
                   /\ Range(data[col]) \subseteq Range(di'.sparse_unique_vals[1][col])
                   /\ grown_dictionary(di.sparse_unique_vals[1][col],
                                       di'.sparse_unique_vals[1][col],
                                       di'.sparse_unique_idxs[1][col])
             /\ \A main \in DOMAIN di.multi_sparse_unique_vals[1] :
                   /\ \A col \in columns_of_field(di, main) :
                         Range(data[col]) \subseteq Range(di'.multi_sparse_unique_vals[1][main])
                   /\ grown_dictionary(di.multi_sparse_unique_vals[1][main],
                                       di'.multi_sparse_unique_vals[1][main],
                                       di'.multi_sparse_unique_idxs[1][main])]_vars

(***************************************************************************)
(* Properties of the merged consumption.                                   *)
(***************************************************************************)
\* every key of before is a key of after, with its list of before as the
\* beginning of its list of after
lists_extended(before, after) ==
    \A k \in DOMAIN before :
        /\ k \in DOMAIN after
        /\ Len(after[k]) >= Len(before[k])
        /\ SubSeq(after[k], 1, Len(before[k])) = before[k]

\* C24: over every update_consumed with merge, in a run of nothing but such
\* updates, user_consumed and item_consumed keep what they had (the
\* original interactions and those of all batches merged before) and have
\* the interactions of the new batch behind it.
C24_MergeAccumulates ==
    [][/\ lists_extended(di.user_consumed, di'.user_consumed)
       /\ lists_extended(di.item_consumed, di'.item_consumed)]_vars

(***************************************************************************)
(* Properties of the popular items.                                        *)
(***************************************************************************)
\* the number of distinct users of an item in the interaction data
users_of_item(self, i) ==
    Cardinality({self.interaction_data[k].user :
                    k \in {k \in DOMAIN self.interaction_data :
                              self.interaction_data[k].item = i}})

\* C25: over every set_popular_items(num), popular_items afterwards has at
\* most num entries, begins with the items of the interaction data (all of
\* them, or the first num) in non-increasing order of their number of
\* distinct users, and has no item twice.
C25_PopularItemsDistinctTopN ==
    [][\A num \in 0..MaxNum :
          (nops' = nops + 1 /\ last_mutation' = "set_popular_items"
           /\ di' = set_popular_items(di, num))
          => LET popular == di'.popular_items[1]
                 items == {di.interaction_data[k].item : k \in DOMAIN di.interaction_data}
                 top == Min(num, Cardinality(items))
             IN /\ Len(popular) <= num
                /\ Len(popular) >= top
                /\ \A k \in 1..top : popular[k] \in items
                /\ \A k \in 1..(top - 1) :
                      users_of_item(di, popular[k]) >= users_of_item(di, popular[k + 1])
                /\ \A k \in 1..top : \A i \in items :
                      users_of_item(di, i) > users_of_item(di, popular[k])
                      => \E j \in 1..(k - 1) : popular[j] = i
                /\ \A j, k \in 1..Len(popular) : j # k => popular[j] # popular[k]]_vars

(***************************************************************************)
(* Properties of the calls on a fitted engine.                             *)
(***************************************************************************)
\* the fields of the engine; the other fields of model count what the
\* calls have printed
EngineFields ==
    {"task", "k_sim", "default_pred", "lower_bound", "upper_bound", "scores", "print_count"}

\* C26: over every call of compute_pred and of rank_recommendations on a
\* fitted engine, every field of the engine is afterwards what it was
\* before: the calls are read-only.
C26_CallsAreReadOnly ==
    [][\A f \in EngineFields : model'[f] = model[f]]_vars

\* C27: in every state where the last call is a compute_pred of an engine
\* for the rating task that has returned, on the neighbour path or on the
\* default path, the value returned is at least lower_bound and at most
\* upper_bound.
C27_RatingPredictionWithinBounds ==
    (out.call = "compute_pred" /\ model.task = "rating" /\ out.kind = "return")
    => /\ out.value[1] >= model.lower_bound * out.value[2]
       /\ out.value[1] <= model.upper_bound * out.value[2]

\* C28: in every state of an engine built with store_top_k, fitted, saved
\* or loaded, topk_sim is set if sim_matrix is set.
C28_TopKSetWithSimMatrix ==
    ("store_top_k" \in DOMAIN model /\ model.store_top_k /\ model.sim_matrix # None)
    => model.topk_sim # None

(***************************************************************************)
(* One folder and one model_name that several DataInfo objects are saved   *)
(* to.  out keeps the col_name_mapping of the object of the last save.     *)
(***************************************************************************)
\* the program builds another DataInfo
NewDataInfo(args) ==
    /\ di' = DataInfo__init__(args)
    /\ ret' = <<args.user_indices[1], args.item_indices[1]>>
    /\ last_mutation' = "init"
    /\ UNCHANGED <<nops, disk, model, out>>

SaveTo ==
    /\ disk' = save(di, disk)
    /\ out' = [call |-> "save", col_name_mapping |-> di.col_name_mapping]
    /\ UNCHANGED <<di, nops, last_mutation, ret, model>>

LoadFrom ==
    /\ disk.npz # None
    /\ di' = load(disk)
    /\ ret' = <<disk.npz[1].hparams["user_indices"][1], disk.npz[1].hparams["item_indices"][1]>>
    /\ last_mutation' = "load"
    /\ UNCHANGED <<nops, disk, model, out>>

SpecFolder ==
    Init
    /\ [][\/ \E args \in {FeatArgs, PureArgs} : NewDataInfo(args)
          \/ \E data \in Batches, merge \in BOOLEAN : UpdateConsumed(data, merge)
          \/ StoreArgs
          \/ SaveTo
          \/ LoadFrom]_vars

\* C29: in every state where the object is the one a load has returned,
\* after any sequence of saves into the folder, its col_name_mapping is the
\* col_name_mapping of the object of the most recent save; None if that
\* object had none.
C29_LoadReturnsMappingOfLastSave ==
    (last_mutation = "load" /\ out.call = "save")
    => di.col_name_mapping = out.col_name_mapping

(***************************************************************************)
(* An expansion by a frame that may lack columns.  data[sparse_col] of a   *)
(* column the frame lacks raises KeyError at that point of the loop of     *)
(* update_sparse_unique; what the call has assigned before stays.  The     *)
(* loop visits the columns in the order of the dict, given as order.  A    *)
(* call returns [self, raised].                                            *)
(***************************************************************************)
orders_of(S) ==
    {order \in [1..Cardinality(S) -> S] :
        \A i, j \in 1..Cardinality(S) : order[i] = order[j] => i = j}

RECURSIVE update_sparse_unique_loop(_, _, _, _, _)
update_sparse_unique_loop(self, dicts, idxs, data, order) ==
    IF order = << >> THEN [self |-> self, raised |-> FALSE]
    ELSE LET col == Head(order)
         IN IF col \notin DOMAIN data
            THEN [self |-> self, raised |-> TRUE]
            ELSE LET unique_vals == self[dicts][1][col]
                     sparse_diff == setdiff1d(data[col], unique_vals)
                     appended == unique_vals \o sparse_diff
                     s == IF Len(sparse_diff) > 0
                          THEN [self EXCEPT
                                  ![dicts] = Some([self[dicts][1] EXCEPT ![col] = appended]),
                                  ![idxs] = Some([c \in DOMAIN self[idxs][1] \cup {col} |->
                                                    IF c = col
                                                    THEN dict_zip(appended, Len(appended))
                                                    ELSE self[idxs][1][c]])]
                          ELSE self
                 IN update_sparse_unique_loop(s, dicts, idxs, data, Tail(order))

expand_or_raise(self, data, order, multi_order) ==
    LET s1 == reset_property(store_old_info(self))
        s2 == expand_users(s1, data)
        s3 == expand_items(s2, data)
        r4 == IF s3.sparse_unique_vals # None
              THEN update_sparse_unique_loop(s3, "sparse_unique_vals",
                                             "sparse_unique_idxs", data, order)
              ELSE [self |-> s3, raised |-> FALSE]
    IN IF r4.raised THEN r4
       ELSE IF r4.self.multi_sparse_unique_vals # None
       THEN update_sparse_unique_loop(r4.self, "multi_sparse_unique_vals",
                                      "multi_sparse_unique_idxs", data, multi_order)
       ELSE r4

dict_orders(self, dicts) ==
    IF self[dicts] = None THEN {<< >>} ELSE orders_of(DOMAIN self[dicts][1])

\* the frames of new data and the frames that lack a sparse column
PartialBatches ==
    {[c \in cols |-> data[c]] :
        data \in Batches,
        cols \in {{"user", "item", "sex", "genre"}, {"user", "item", "sex"},
                  {"user", "item", "genre"}}}

TryExpand(data) ==
    /\ nops < MaxOps
    /\ \E order \in dict_orders(di, "sparse_unique_vals"),
          multi_order \in dict_orders(di, "multi_sparse_unique_vals") :
          LET r == expand_or_raise(di, data, order, multi_order)
          IN /\ di' = r.self
             /\ out' = [call |-> "expand", raised |-> r.raised]
    /\ nops' = nops + 1
    /\ last_mutation' = "expand"
    /\ UNCHANGED <<ret, disk, model>>

SpecTryExpand ==
    Init
    /\ [][\/ \E data \in PartialBatches : TryExpand(data)
          \/ \E p \in Properties : ReadProperty(p)
          \/ AddOov]_vars

\* the fields C30 names: the unique-value sequences, the unique feature
\* matrices, the category dictionaries and the cached properties
AllOrNothingFields ==
    MatrixNames \cup {"user_unique_vals", "item_unique_vals",
                      "sparse_unique_vals", "multi_sparse_unique_vals",
                      "_n_users", "_n_items", "_user2id", "_item2id",
                      "_id2user", "_id2item", "_data_size"}

\* C30: over every call of expand_sparse_unique_vals_and_matrix that
\* raises part-way, the unique-value sequences, the unique feature
\* matrices, the category dictionaries and the cached properties are
\* afterwards what they were before the call.
C30_FailedExpansionChangesNothing ==
    [][(nops' = nops + 1 /\ last_mutation' = "expand" /\ out'.raised)
       => \A f \in AllOrNothingFields : di'[f] = di[f]]_vars

====
